---- MODULE Spec2Model ----
(***************************************************************************)
(* Model of the dashboardr client-side input filter system                 *)
(* (attdat_dashboard/assets/tab-scroll-fix.js, second IIFE) and of the     *)
(* legacy dashboardrFilterHook.                                            *)
(*                                                                         *)
(* Strings are TLA+ strings drawn from a finite universe; the JavaScript   *)
(* string functions used by the code (parseFloat, String, includes, trim,  *)
(* toLowerCase) are tabulated on that universe.  A JavaScript number is a  *)
(* record [nan, n]; a chart point is a tuple: <<>> is null, <<y>> a bare   *)
(* number and <<x, y>> a point object {x, y}.                              *)
(***************************************************************************)
EXTENDS Integers, Sequences, FiniteSets, TLC

VARIABLES
  page,                \* ids of the controls present in the document
  readyState,          \* document.readyState: "loading" or "complete"
  dom,                 \* per control: live DOM value, init marker, listeners
  inputState,          \* const inputState = {}
  defaultValues,       \* const defaultValues = {}
  initialized,         \* let initialized = false
  filtersApplied,      \* let filtersApplied = false
  highcharts,          \* the charting surface: "undefined", "nocharts" or "charts"
  charts,              \* live chart objects (Highcharts.charts)
  originalSeriesData,  \* WeakMap series -> {data, name}
  waitTimer,           \* a pending setTimeout(waitForChartsAndApply, 200)
  applyTimers,         \* pending setTimeout(applyAllFilters, 200) retries
  tabTimers,           \* pending tab-switch timeouts (300 ms)
  textTimer,           \* per control: pending debounce timeouts (300 ms)
  atInit,              \* history: state and default of a control as captured by its initialization
  last,                \* history: the kind of the last step (init, change, reset, throw, retry, other)
  \* the tab scroll fix (tab-scroll-fix.js, first IIFE)
  scroll,              \* window.scrollX, window.scrollY
  savedScroll,         \* var savedScroll = { x: 0, y: 0 }
  navActive,           \* the tabs that carry the class active
  ariaSelected,        \* the tabs whose aria-selected is 'true'
  paneActive,          \* the panes that carry the classes show and active
  frames,              \* pending requestAnimationFrame callbacks of the click listener
  restores,            \* pending setTimeout(..., 50) callbacks of the click listener
  scrollBefore,        \* history: the scroll position before the current interaction
  phase,               \* history: idle, down (mousedown on a tab), clicked
  clicked,             \* history: per tabset, the tab of the last handled click
  \* the modal system (docs/assets/modal.js)
  modalPhase,          \* loading, ready (DOMContentLoaded has fired), loaded (window load)
  overlays,            \* elements with id dashboardr-modal-overlay in the document
  modalHandlers,       \* sets of listeners initializeModals has attached
  display,             \* modalOverlay.style.display
  modalBody,           \* the id of the content cloned into the modal body, "" when empty
  overflow,            \* document.body.style.overflow
  lastOp,              \* history: the last effective operation (none, open, close)
  lastClick            \* history: the last link click, whether its default was prevented
                       \* and whether openModal showed the content

enginevars == <<page, readyState, dom, inputState, defaultValues, initialized,
                filtersApplied, highcharts, charts, originalSeriesData, waitTimer,
                applyTimers, tabTimers, textTimer, atInit, last>>

tabvars == <<scroll, savedScroll, navActive, ariaSelected, paneActive, frames,
             restores, scrollBefore, phase, clicked>>

modalvars == <<modalPhase, overlays, modalHandlers, display, modalBody, overflow,
               lastOp, lastClick>>

vars == <<enginevars, tabvars, modalvars>>

----------------------------------------------------------------------------
(* Bounds of the model *)

\* pending applyAllFilters retry timers kept at once
MaxApplyTimers == 1
\* pending tab-switch timers kept at once
MaxTabTimers == 1
\* pending debounce timeouts of one text input kept at once
MaxTextTimers == 2

----------------------------------------------------------------------------
(* JavaScript values *)

JsNum(n) == [nan |-> FALSE, n |-> n]
NaN == [nan |-> TRUE, n |-> 0]

\* the numerals of the string universe and the numbers they denote
Numerals ==
  { <<"0", 0>>, <<"1", 1>>, <<"2", 2>>, <<"7", 7>>,
    <<"2014", 2014>>, <<"2015", 2015>>, <<"2016", 2016>>, <<"2019", 2019>>,
    <<"2020", 2020>>, <<"2021", 2021>>, <<"2022", 2022>> }

\* parseFloat(s): the number a numeral denotes, NaN for "" and for text
parseFloat(s) ==
  IF \E p \in Numerals : p[1] = s
    THEN JsNum((CHOOSE p \in Numerals : p[1] = s)[2])
    ELSE NaN

\* String(v) of a number
StringOfNum(v) ==
  IF v.nan THEN "NaN" ELSE (CHOOSE p \in Numerals : p[2] = v.n)[1]

\* x || 0 on numbers: NaN and 0 are falsy
OrZero(v) == IF v.nan THEN JsNum(0) ELSE v

\* s.includes(t) for the tokens the code looks for
Includes(s, t) ==
  CASE t = "All"        -> s \in {"All Years"}
    [] t = "Pre-COVID"  -> s \in {"Pre-COVID"}
    [] t = "2015-2019"  -> s \in {"2015-2019"}
    [] t = "Post-COVID" -> s \in {"Post-COVID"}
    [] t = "2020"       -> s \in {"2020+", "2020"}
    [] t = "a"          -> s \in {"a"}
    [] t = "zz"         -> FALSE
    [] OTHER            -> s = t

\* String(v).toLowerCase()
toLowerCase(s) ==
  CASE s = "ALL" -> "all"
    [] s = "A"   -> "a"
    [] s = "B"   -> "b"
    [] s = "North" -> "north"
    [] s = "South" -> "south"
    [] s = "Plot"  -> "plot"
    [] OTHER     -> s

\* s.trim().toLowerCase()
TrimLower(s) ==
  CASE s = " A " -> "a"
    [] s = "A"   -> "a"
    [] s = "B"   -> "b"
    [] s = "C"   -> "c"
    [] OTHER     -> s

\* the elements of set S in the order of sequence order (document order)
RECURSIVE InOrder(_, _)
InOrder(order, S) ==
  IF order = <<>> THEN <<>>
  ELSE IF Head(order) \in S
    THEN <<Head(order)>> \o InOrder(Tail(order), S)
    ELSE InOrder(Tail(order), S)

\* a function given by its table of values, each value computed once
Table(f) == f @@ <<>>

\* the elements of a sequence
Range(s) == { s[i] : i \in 1..Len(s) }

----------------------------------------------------------------------------
(* The document: the controls a page can hold and their attributes *)

DiscreteTypes == {"select", "checkbox", "radio", "button_group"}

Ctl ==
  [ period  |-> [type |-> "radio", filterVar |-> "period",
                 options |-> <<"All Years", "2015-2019", "2020+">>,
                 multiple |-> FALSE, toggleSeries |-> "", override |-> FALSE,
                 labels |-> <<>>, min |-> 0, max |-> 0, step |-> 1],
    metric  |-> [type |-> "button_group", filterVar |-> "metric",
                 options |-> <<"GDP", "Pop">>,
                 multiple |-> FALSE, toggleSeries |-> "", override |-> FALSE,
                 labels |-> <<>>, min |-> 0, max |-> 0, step |-> 1],
    country |-> [type |-> "checkbox", filterVar |-> "country",
                 options |-> <<"A", "B">>,
                 multiple |-> TRUE, toggleSeries |-> "", override |-> FALSE,
                 labels |-> <<>>, min |-> 0, max |-> 0, step |-> 1],
    year    |-> [type |-> "select", filterVar |-> "year",
                 options |-> <<"2014", "2015">>,
                 multiple |-> TRUE, toggleSeries |-> "", override |-> FALSE,
                 labels |-> <<>>, min |-> 0, max |-> 0, step |-> 1],
    region  |-> [type |-> "checkbox", filterVar |-> "region",
                 options |-> <<"ALL", "North">>,
                 multiple |-> TRUE, toggleSeries |-> "", override |-> FALSE,
                 labels |-> <<>>, min |-> 0, max |-> 0, step |-> 1],
    showB   |-> [type |-> "switch", filterVar |-> "show_b",
                 options |-> <<>>,
                 multiple |-> FALSE, toggleSeries |-> "B", override |-> TRUE,
                 labels |-> <<>>, min |-> 0, max |-> 0, step |-> 1],
    plainB  |-> [type |-> "switch", filterVar |-> "plain_b",
                 options |-> <<>>,
                 multiple |-> FALSE, toggleSeries |-> "B", override |-> FALSE,
                 labels |-> <<>>, min |-> 0, max |-> 0, step |-> 1],
    from    |-> [type |-> "slider", filterVar |-> "from",
                 options |-> <<"0", "1", "2">>,
                 multiple |-> FALSE, toggleSeries |-> "", override |-> FALSE,
                 labels |-> <<"2014", "2015">>, min |-> 0, max |-> 2, step |-> 1],
    since   |-> [type |-> "slider", filterVar |-> "since",
                 options |-> <<"2014", "2016", "2022">>,
                 multiple |-> FALSE, toggleSeries |-> "", override |-> FALSE,
                 labels |-> <<>>, min |-> 2014, max |-> 2022, step |-> 1],
    search  |-> [type |-> "text", filterVar |-> "search",
                 options |-> <<"", " A ", "zz">>,
                 multiple |-> FALSE, toggleSeries |-> "", override |-> FALSE,
                 labels |-> <<>>, min |-> 0, max |-> 0, step |-> 1],
    atleast |-> [type |-> "number", filterVar |-> "threshold",
                 options |-> <<"", "0", "7">>,
                 multiple |-> FALSE, toggleSeries |-> "", override |-> FALSE,
                 labels |-> <<>>, min |-> 0, max |-> 7, step |-> 1],
    loose   |-> [type |-> "checkbox", filterVar |-> "",
                 options |-> <<"A">>,
                 multiple |-> TRUE, toggleSeries |-> "", override |-> FALSE,
                 labels |-> <<>>, min |-> 0, max |-> 0, step |-> 1] ]

Ids == DOMAIN Ctl

\* the pages of the model: each holds two controls
Pages ==
  { {"period", "metric"},
    {"country", "showB"},
    {"year", "from"},
    {"search", "atleast"},
    {"since", "loose"},
    {"region", "country"},
    {"country", "plainB"},
    {"showB", "plainB"},
    {"search", "showB"} }

\* the values an element's DOM value can take
DomValues(id) ==
  LET c == Ctl[id] IN
  CASE c.type \in {"select", "checkbox"} -> SUBSET Range(c.options)
    [] c.type \in {"radio", "button_group"} ->
         {{}} \cup { {o} : o \in Range(c.options) }
    [] c.type = "switch" -> BOOLEAN
    [] OTHER -> Range(c.options)

\* the values an element can have when the page is served
ServedValues(id) ==
  LET c == Ctl[id] IN
  CASE c.type = "select" -> << {c.options[1]} >>
    [] c.type = "checkbox" -> << {} >>
    [] c.type = "radio" -> << {c.options[1]} >>
    [] c.type = "button_group" -> << {}, {c.options[1]} >>
    [] c.type = "switch" -> << TRUE >>
    [] c.type = "number" -> << c.options[1], c.options[3] >>
    [] OTHER -> << c.options[1] >>

\* Object.keys(inputState): insertion order, which is the order of the init
\* functions (select, checkbox, radio, switch, slider, text, number, button group)
KeyOrder ==
  <<"year", "country", "region", "loose", "period", "showB", "plainB", "from",
    "since", "search", "atleast", "metric">>

----------------------------------------------------------------------------
(* Control registry: reading the DOM *)

\* getSelectedValues(input) for a SELECT: the selected options in document order
getSelectedValues(id, v) == InOrder(Ctl[id].options, v)

\* getCheckboxValues(group): the checked boxes in document order
getCheckboxValues(id, v) == InOrder(Ctl[id].options, v)

\* getRadioValue(group): the checked radio, if any
getRadioValue(id, v) == InOrder(Ctl[id].options, v)

\* group.querySelector('.dashboardr-button-option.active'): the first active button
activeButton(id, v) ==
  LET act == InOrder(Ctl[id].options, v)
  IN  IF act = <<>> THEN <<>> ELSE <<Head(act)>>

\* the array a discrete control's listener (or init) reads from the DOM
selectedOf(id, v) ==
  CASE Ctl[id].type = "select"       -> getSelectedValues(id, v)
    [] Ctl[id].type = "checkbox"     -> getCheckboxValues(id, v)
    [] Ctl[id].type = "radio"        -> getRadioValue(id, v)
    [] Ctl[id].type = "button_group" -> activeButton(id, v)

\* const value = parseFloat(input.value) || 0  (number inputs)
numberValue(v) == OrZero(parseFloat(v))

\* const value = parseFloat(input.value)  (sliders)
sliderValue(v) == parseFloat(v)

\* the inputState entry an init function builds from the DOM value v.
\* arr names the array object held in selected: "read" is an array just read
\* from the DOM by init, "later" one built by a listener or by a reset.
initState(id, v) ==
  LET c == Ctl[id] IN
  CASE c.type \in DiscreteTypes ->
         [filterVar |-> c.filterVar, inputType |-> c.type,
          selected |-> selectedOf(id, v), arr |-> "read"]
    [] c.type = "switch" ->
         [filterVar |-> c.filterVar, inputType |-> "switch",
          selected |-> IF v THEN <<"true">> ELSE <<"false">>, value |-> v,
          toggleSeries |-> c.toggleSeries, override |-> c.override]
    [] c.type = "slider" ->
         [filterVar |-> c.filterVar, inputType |-> "slider",
          selected |-> <<v>>, value |-> sliderValue(v),
          min |-> c.min, max |-> c.max, step |-> c.step, labels |-> c.labels]
    [] c.type = "text" ->
         [filterVar |-> c.filterVar, inputType |-> "text",
          selected |-> <<v>>, value |-> v]
    [] c.type = "number" ->
         [filterVar |-> c.filterVar, inputType |-> "number",
          selected |-> <<v>>, value |-> numberValue(v),
          min |-> c.min, max |-> c.max]

\* a registration that stores the selected array itself as the default
initDefaultAliased(id, st) ==
  IF Ctl[id].type \in DiscreteTypes
    THEN [selected |-> st.selected, arr |-> st.arr]
    ELSE [value |-> st.value]

\* defaultValues[inputId] = { selected: selected.slice() } or { value: ... }.
\* The slice is a new array object, "copy".
initDefault(id, st) ==
  IF Ctl[id].type \in DiscreteTypes
    THEN [selected |-> st.selected, arr |-> "copy"]
    ELSE [value |-> st.value]

\* a registration that ignores the initialization marker
registersUnmarked(id, d) == Ctl[id].filterVar # ""

\* a registration that skips the data-filter-var check
registersUnbound(id, d) == ~d.marker

\* whether an init function registers the element: not yet marked
\* (dataset.dashboardrInitialized) and bound to a filter variable
registers(id, d) == ~d.marker /\ Ctl[id].filterVar # ""

----------------------------------------------------------------------------
(* The charting surface and the global data tables *)

\* the charts as the page constructs them: options.chart.id ("" when the
\* chart has none), categories of the x axis (none for a numeric axis), series
\* names and each series' options.data
ChartCfg ==
  << [id |-> "", hasCategories |-> TRUE,
      categories |-> <<"2014", "2015", "2016", "2020", "2021">>,
      names |-> <<"A", "B">>,
      data |-> << << <<10>>, <<11>>, <<12>>, <<13>>, <<14>> >>,
                  << <<20>>, <<21>>, <<22>>, <<23>>, <<24>> >> >>],
     [id |-> "c2", hasCategories |-> TRUE,
      categories |-> <<"2014", "2015", "Total">>,
      names |-> <<"C">>,
      data |-> << << <<30>>, <<31>> >> >>],
     [id |-> "", hasCategories |-> FALSE,
      categories |-> <<>>,
      names |-> <<"A">>,
      data |-> << << <<0, 5>>, <<1, 6>> >> >>],
     [id |-> "xt", hasCategories |-> TRUE,
      categories |-> <<"2014", "2015">>,
      names |-> <<"A", "B">>,
      data |-> << << <<100>>, <<20>> >>,
                  << <<0>>, <<80>> >> >>] >>

ChartIds == DOMAIN ChartCfg

SeriesKeys == { key \in ChartIds \X (1..2) : key[2] <= Len(ChartCfg[key[1]].names) }

\* window.dashboardrMetricData: rows {country, metric, year, value}, in order
dashboardrMetricData ==
  << [country |-> "A", metric |-> "GDP", year |-> "2014", value |-> 100],
     [country |-> "A", metric |-> "GDP", year |-> "2015", value |-> 101],
     [country |-> "A", metric |-> "Pop", year |-> "2014", value |-> 200],
     [country |-> "B", metric |-> "GDP", year |-> "2015", value |-> 111] >>

\* [...new Set(allData.map(d => d[timeVar]))].sort()
metricTimeValues == <<"2014", "2015">>

\* the rows of a cross-tab: one count n per combination of the x variable,
\* the stack variable and the filter variables
crossTabRows ==
  << [wave |-> "2015", answer |-> "A", region |-> "North", country |-> "A", n |-> 1],
     [wave |-> "2015", answer |-> "B", region |-> "North", country |-> "B", n |-> 1],
     [wave |-> "2015", answer |-> "B", region |-> "South", country |-> "A", n |-> 3],
     [wave |-> "2014", answer |-> "A", region |-> "South", country |-> "B", n |-> 5] >>

crossTabConfig ==
  [xVar |-> "wave", stackVar |-> "answer", filterVars |-> <<"region", "country">>,
   stackedType |-> "percent", stackOrder |-> <<"A", "B">>, xOrder |-> <<>>]

\* the config the page p is generated with: one page asks for raw counts and
\* supplies no order, one asks for raw counts and supplies a stack order that
\* names a value no series is called, one asks for shares and supplies no
\* order, the others ask for shares in a supplied stack order
crossTabConfigOf(p) ==
  CASE p = {"country", "plainB"} ->
         [crossTabConfig EXCEPT !.stackedType = "normal", !.stackOrder = <<>>]
    [] p = {"region", "country"} ->
         [crossTabConfig EXCEPT !.stackOrder = <<>>]
    [] p = {"showB", "plainB"} ->
         [crossTabConfig EXCEPT !.stackedType = "normal", !.stackOrder = <<"B", "Other">>]
    [] OTHER -> crossTabConfig

\* window.dashboardrCrossTab: chart id -> {data, config}; the entry of chart
\* c2 has no data
dashboardrCrossTab ==
  [c2 |-> [hasData |-> FALSE, data |-> <<>>, hasConfig |-> TRUE,
           config |-> crossTabConfigOf(page)],
   xt |-> [hasData |-> TRUE, data |-> crossTabRows, hasConfig |-> TRUE,
           config |-> crossTabConfigOf(page)]]

\* a chart as constructed
NewChart(k) ==
  [origCats   |-> [set |-> FALSE, cats |-> <<>>],
   categories |-> [has |-> ChartCfg[k].hasCategories, cats |-> ChartCfg[k].categories],
   series     |-> [i \in 1..Len(ChartCfg[k].names) |->
                     [data |-> ChartCfg[k].data[i], visible |-> TRUE,
                      showInLegend |-> TRUE, type |-> "column"]],
   title      |-> "",
   yTitle     |-> "",
   legend     |-> TRUE]

NoSnapshot == [has |-> FALSE, data |-> <<>>]

\* a capture that takes the data of every series again, captured or not
storeAgain(cs, osd) ==
  Table([key \in SeriesKeys |->
     [has |-> TRUE, data |-> cs[key[1]].series[key[2]].data]])

\* storeOriginalData(): capture options.data of every series not yet captured
storeOriginalData(cs, osd) ==
  Table([key \in SeriesKeys |->
     IF osd[key].has THEN osd[key]
     ELSE [has |-> TRUE, data |-> cs[key[1]].series[key[2]].data]])

----------------------------------------------------------------------------
(* Filter application engine: collecting the active filters *)

\* position of an id in Object.keys(inputState)
KeyPos(id) == CHOOSE i \in 1..Len(KeyOrder) : KeyOrder[i] = id

\* the registered controls of a partition
isSliderCtl(S, id)   == S[id].inputType = "slider"
isSwitchCtl(S, id)   == S[id].inputType = "switch"
isTextCtl(S, id)     == S[id].inputType = "text"
isNumberCtl(S, id)   == S[id].inputType = "number"
isPeriodCtl(S, id)   == S[id].inputType \in DiscreteTypes /\ S[id].filterVar = "period"
isDiscreteCtl(S, id) == S[id].inputType \in DiscreteTypes /\ S[id].filterVar # "period"

\* the control whose entry a filter variable ends with: the last one in key order
LastOf(ids) == CHOOSE id \in ids : \A o \in ids : KeyPos(o) <= KeyPos(id)

\* filters: filterVar -> selected (select, checkbox, radio, button group)
filtersOf(S) ==
  LET ids == { id \in DOMAIN S : isDiscreteCtl(S, id) }
      fvs == { S[id].filterVar : id \in ids }
  IN  Table([fv \in fvs |-> S[LastOf({ id \in ids : S[id].filterVar = fv })].selected])

\* periodFilters: filterVar -> selected
periodFiltersOf(S) ==
  LET ids == { id \in DOMAIN S : isPeriodCtl(S, id) }
      fvs == { S[id].filterVar : id \in ids }
  IN  Table([fv \in fvs |-> S[LastOf({ id \in ids : S[id].filterVar = fv })].selected])

\* sliderFilters: filterVar -> {value, min, max, step, labels}
sliderFiltersOf(S) ==
  LET ids == { id \in DOMAIN S : isSliderCtl(S, id) }
      fvs == { S[id].filterVar : id \in ids }
  IN  Table([fv \in fvs |->
         LET st == S[LastOf({ id \in ids : S[id].filterVar = fv })]
         IN  [value |-> st.value, min |-> st.min, max |-> st.max,
              step |-> st.step, labels |-> st.labels]])

\* numberFilters: filterVar -> value. The pass collects them and reads them
\* nowhere.
numberFiltersOf(S) ==
  LET ids == { id \in DOMAIN S : isNumberCtl(S, id) }
      fvs == { S[id].filterVar : id \in ids }
  IN  Table([fv \in fvs |-> S[LastOf({ id \in ids : S[id].filterVar = fv })].value])

\* textFilters: filterVar -> trimmed lower-cased text, for non-blank text
textFiltersOf(S) ==
  LET ids == { id \in DOMAIN S : isTextCtl(S, id) /\ TrimLower(S[id].value) # "" }
      fvs == { S[id].filterVar : id \in ids }
  IN  Table([fv \in fvs |->
         TrimLower(S[LastOf({ id \in ids : S[id].filterVar = fv })].value)])

----------------------------------------------------------------------------
(* Filter application engine: one chart on the normal path *)

\* a >= b and a <= b on JavaScript numbers: false when either is NaN
Ge(a, b) == ~a.nan /\ ~b.nan /\ a.n >= b.n
Lt(a, b) == ~a.nan /\ ~b.nan /\ a.n < b.n

\* Math.round(q / d) for d > 0
RoundDiv(q, d) == (2 * q + d) \div (2 * d)

\* a preset test whose 2015-2019 range excludes its first year
periodKeepsExclusive(periodValue, cat) ==
  LET catNum == parseFloat(cat) IN
  IF catNum.nan THEN TRUE
  ELSE IF Includes(periodValue, "Pre-COVID") \/ Includes(periodValue, "2015-2019")
    THEN catNum.n > 2015 /\ catNum.n <= 2019
  ELSE IF Includes(periodValue, "Post-COVID") \/ Includes(periodValue, "2020")
    THEN catNum.n >= 2020
  ELSE TRUE

\* the period preset test of one category
periodKeeps(periodValue, cat) ==
  LET catNum == parseFloat(cat) IN
  IF catNum.nan THEN TRUE
  ELSE IF Includes(periodValue, "Pre-COVID") \/ Includes(periodValue, "2015-2019")
    THEN catNum.n >= 2015 /\ catNum.n <= 2019
  ELSE IF Includes(periodValue, "Post-COVID") \/ Includes(periodValue, "2020")
    THEN catNum.n >= 2020
  ELSE TRUE

\* whether the period presets keep a category
periodNarrow(pf, cat) ==
  \A fv \in DOMAIN pf :
    (pf[fv] # <<>> /\ pf[fv][1] # "" /\ ~Includes(pf[fv][1], "All"))
      => periodKeeps(pf[fv][1], cat)

\* a discrete filter test that narrows whenever something is selected
discreteNarrowAlways(f, cats, cat) ==
  \A fv \in DOMAIN f : f[fv] # <<>> => cat \in Range(f[fv])

\* whether the discrete filters keep a category: a filter narrows when its
\* selected values share a value with the original categories
discreteNarrow(f, cats, cat) ==
  \A fv \in DOMAIN f :
    (f[fv] # <<>> /\ Range(f[fv]) \cap Range(cats) # {})
      => cat \in Range(f[fv])

\* originalCategories.findIndex(cat => String(cat) === String(startLabel)),
\* from 1; 0 when there is none
findIndex(cats, label) ==
  IF label \in Range(cats)
    THEN CHOOSE i \in 1..Len(cats) :
           cats[i] = label /\ \A j \in 1..(i - 1) : cats[j] # label
    ELSE 0

\* whether one slider keeps the category at original index idx (from 1)
sliderKeeps(info, cats, idx) ==
  IF info.labels # <<>>
    THEN IF info.value.nan THEN TRUE
         ELSE LET labelIdx == RoundDiv(info.value.n - info.min, info.step) + 1
              IN  IF labelIdx \in 1..Len(info.labels) /\ info.labels[labelIdx] # ""
                    THEN LET start == findIndex(cats, info.labels[labelIdx])
                         IN  start > 0 => idx >= start
                    ELSE TRUE
    ELSE LET catNum == parseFloat(cats[idx])
         IN  catNum.nan \/ Ge(catNum, info.value)

sliderNarrow(sf, cats, idx) ==
  \A fv \in DOMAIN sf : sliderKeeps(sf[fv], cats, idx)

\* visibleCategoryIndices (from 1) of a chart with original categories cats
visibleCategoryIndices(F, cats) ==
  SelectSeq([i \in 1..Len(cats) |-> i],
            LAMBDA idx :
              /\ periodNarrow(F.periodFilters, cats[idx])
              /\ discreteNarrow(F.filters, cats, cats[idx])
              /\ sliderNarrow(F.sliderFilters, cats, idx))

\* selectedMetric: the metric the chart is rebuilt for, "" when none
selectedMetric(f) ==
  IF "metric" \in DOMAIN f /\ f["metric"] # <<>> THEN f["metric"][1] ELSE ""

\* countryData of a series for a metric
countryData(name, metric) ==
  SelectSeq(dashboardrMetricData,
            LAMBDA d : d.country = name /\ d.metric = metric)

\* newData: the value of the first matching row for each time value, else null
metricData(name, metric, timeValues) ==
  LET rows == countryData(name, metric) IN
  Table([t \in 1..Len(timeValues) |->
     LET hit == SelectSeq(rows, LAMBDA d : d.year = timeValues[t])
     IN  IF hit = <<>> THEN <<>> ELSE <<Head(hit).value>>])

\* the names a switch that is off hides, and those a switch on with override shows
switchHiddenSeries(S) ==
  { S[id].toggleSeries : id \in { i \in DOMAIN S :
      isSwitchCtl(S, i) /\ S[i].toggleSeries # "" /\ ~S[i].value } }

\* an engine in which no switch forces a series to be shown
switchShownNone(S) == {}

switchShownSeries(S) ==
  { S[id].toggleSeries : id \in { i \in DOMAIN S :
      isSwitchCtl(S, i) /\ S[i].toggleSeries # "" /\ S[i].value /\ S[i].override } }

\* a visibility test that applies every active filter to the series names,
\* whether or not it matches one of them
showSeriesAlways(F, names, name) ==
  /\ \A fv \in DOMAIN F.textFilters : Includes(TrimLower(name), F.textFilters[fv])
  /\ \A fv \in DOMAIN F.filters :
       F.filters[fv] # <<>> => name \in Range(F.filters[fv])

\* showSeries: the text and discrete series filters on a series name
showSeries(F, names, name) ==
  /\ \A fv \in DOMAIN F.textFilters :
       (\E n \in Range(names) : Includes(TrimLower(n), F.textFilters[fv]))
         => Includes(TrimLower(name), F.textFilters[fv])
  /\ \A fv \in DOMAIN F.filters :
       (F.filters[fv] # <<>> /\ Range(F.filters[fv]) \cap Range(names) # {})
         => name \in Range(F.filters[fv])

\* the points of a numeric-axis series the sliders keep
numericFilter(sf, data) ==
  SelectSeq(data,
            LAMBDA point :
              \A fv \in DOMAIN sf :
                /\ point # <<>>
                /\ ~(Len(point) = 2 /\ Lt(JsNum(point[1]), sf[fv].value)))

\* the chart type a chart_type filter asks for, "" when it asks for none
typeMap(chartType) ==
  CASE chartType = "Line"   -> "line"
    [] chartType = "Area"   -> "area"
    [] chartType = "Column" -> "column"
    [] OTHER                -> "line"

chartTypeOf(f) ==
  IF "chart_type" \in DOMAIN f /\ f["chart_type"] # <<>> /\ f["chart_type"][1] # ""
    THEN typeMap(f["chart_type"][1]) ELSE ""

\* legend.update({enabled}) by the switches bound to show_legend: the last one wins
legendAfter(S, legend) ==
  LET ids == { id \in DOMAIN S : isSwitchCtl(S, id) /\ S[id].filterVar = "show_legend" }
  IN  IF ids = {} THEN legend ELSE S[LastOf(ids)].value

----------------------------------------------------------------------------
(* Filter application engine: one chart on the cross-tab path *)

\* the labels that mean "do not filter"; the two Japanese and Chinese labels
\* are written in Latin letters
allLabels == {"all", "alle", "tous", "todo", "tutti", "subete", "quanbu"}

\* a test for an "All" option that compares the selected values as written
hasAllOptionExact(selectedValues) ==
  \E v \in Range(selectedValues) : v \in allLabels

\* hasAllOption: some selected value, lower-cased, is one of the labels
hasAllOption(selectedValues) ==
  \E v \in Range(selectedValues) : toLowerCase(v) \in allLabels

\* the rows one filter variable keeps
rowFilter(filteredData, filterVar, filters) ==
  IF filterVar \in DOMAIN filters /\ filters[filterVar] # <<>>
       /\ ~hasAllOption(filters[filterVar])
    THEN SelectSeq(filteredData, LAMBDA row : row[filterVar] \in Range(filters[filterVar]))
    ELSE filteredData

\* step 1: the rows every filter variable keeps
RECURSIVE crossTabFilter(_, _, _)
crossTabFilter(data, filterVars, filters) ==
  IF filterVars = <<>> THEN data
  ELSE crossTabFilter(rowFilter(data, Head(filterVars), filters), Tail(filterVars), filters)

RECURSIVE sumN(_)
sumN(rows) == IF rows = <<>> THEN 0 ELSE Head(rows).n + sumN(Tail(rows))

\* an aggregation that keeps the count of the first row of a group only
byXFirst(rows, config, xVal, stackVal) ==
  LET hit == SelectSeq(rows, LAMBDA row :
               row[config.xVar] = xVal /\ row[config.stackVar] = stackVal)
  IN  IF hit = <<>> THEN 0 ELSE Head(hit).n

\* steps 2 and 3: byX[xVal][stackVal], 0 when there is no such entry
byX(rows, config, xVal, stackVal) ==
  sumN(SelectSeq(rows, LAMBDA row :
         row[config.xVar] = xVal /\ row[config.stackVar] = stackVal))

\* step 4: xTotals[xVal], 0 when there is no such bucket
xTotals(rows, config, xVal) ==
  sumN(SelectSeq(rows, LAMBDA row : row[config.xVar] = xVal))

\* the values of a sequence in the order of their first appearance
RECURSIVE firstSeen(_)
firstSeen(s) ==
  IF s = <<>> THEN <<>>
  ELSE LET front == firstSeen(SubSeq(s, 1, Len(s) - 1))
       IN  IF s[Len(s)] \in Range(front) THEN front ELSE Append(front, s[Len(s)])

\* Object.keys(o) for keys inserted in the given order: the integer keys in
\* ascending order, then the other keys in insertion order
ObjectKeys(inserted) ==
  LET ints == SelectSeq(inserted, LAMBDA key : ~parseFloat(key).nan)
      rest == SelectSeq(inserted, LAMBDA key : parseFloat(key).nan)
  IN  SortSeq(ints, LAMBDA a, b : parseFloat(a).n < parseFloat(b).n) \o rest

\* step 5: the x buckets and the stack values in the order they are emitted
orderedX(rows, config) ==
  IF config.xOrder # <<>> THEN config.xOrder
  ELSE ObjectKeys(firstSeen(Table([i \in 1..Len(rows) |-> rows[i][config.xVar]])))

orderedStack(rows, config) ==
  IF config.stackOrder # <<>> THEN config.stackOrder
  ELSE firstSeen(Table([i \in 1..Len(rows) |-> rows[i][config.stackVar]]))

\* seriesData of one stack value: counts, or shares of the bucket total
seriesData(rows, config, xs, stackVal) ==
  Table([j \in 1..Len(xs) |->
     LET count == byX(rows, config, xs[j], stackVal)
         total == xTotals(rows, config, xs[j])
     IN  IF config.stackedType = "percent" /\ total > 0
           THEN <<(count * 100) \div total>>
           ELSE <<count>>])

\* the series a stack value is written to: the first series of that name,
\* else the series at the stack value's position, else none (0)
findSeries(names, stackVal, seriesIdx) ==
  IF stackVal \in Range(names)
    THEN CHOOSE i \in 1..Len(names) :
           names[i] = stackVal /\ \A j \in 1..(i - 1) : names[j] # stackVal
  ELSE IF seriesIdx <= Len(names) THEN seriesIdx
  ELSE 0

\* the data the rebuild emits: per stack value, the series written and its data
emitted(names, rows, config, xs) ==
  LET stack == orderedStack(rows, config) IN
  Table([p \in 1..Len(stack) |->
     [series |-> findSeries(names, stack[p], p),
      data   |-> seriesData(rows, config, xs, stack[p])]])

\* a rebuild that declines every chart
rebuildNever(chart, names, crossTabInfo, filters) == [result |-> FALSE, chart |-> chart]

\* rebuildFromCrossTab(chart, crossTabInfo, filters): whether the chart was
\* rebuilt, and the chart after the call
rebuildFromCrossTab(chart, names, crossTabInfo, filters) ==
  IF ~crossTabInfo.hasData \/ ~crossTabInfo.hasConfig
    THEN [result |-> FALSE, chart |-> chart]
    ELSE LET config == crossTabInfo.config
             rows == crossTabFilter(crossTabInfo.data, config.filterVars, filters)
             xs == orderedX(rows, config)
             out == emitted(names, rows, config, xs)
             writes(i) == { p \in 1..Len(out) : out[p].series = i }
         IN  [result |-> TRUE,
              chart |->
                [chart EXCEPT
                   !.categories = [has |-> TRUE, cats |-> xs],
                   !.series = Table([i \in 1..Len(names) |->
                      IF writes(i) = {} THEN chart.series[i]
                      ELSE [chart.series[i] EXCEPT
                              !.data = out[CHOOSE p \in writes(i) :
                                             \A q \in writes(i) : q <= p].data]])]]

\* whether window.dashboardrCrossTab has an entry for chart k
hasCrossTab(k) == ChartCfg[k].id # "" /\ ChartCfg[k].id \in DOMAIN dashboardrCrossTab

----------------------------------------------------------------------------
(* Filter application engine: the pass *)

\* a re-indexing that finds no point at any index
pointMissing(data, idx) == <<>>

\* original.data[idx] as filteredData holds it: a copy of the point made by
\* JSON.parse(JSON.stringify(point)), null (<<>>) when the snapshot has no
\* point at the index. The snapshot itself is such a copy, so the copy of one
\* of its points has the value of the point.
pointCopy(data, idx) == IF idx <= Len(data) THEN data[idx] ELSE <<>>

\* chart.series.forEach bodies (metric step, then visibility and data) for
\* one series: the live series and its snapshot after the pass
applySeries(name, ser, snap, names, hasOriginal, hasNumericXAxis, visible, timeValues, F) ==
  LET metric == selectedMetric(F.filters)
      ctype == chartTypeOf(F.filters)
      switched == metric # "" /\ countryData(name, metric) # <<>>
      \* series.setData(newData) of the metric step
      rebuilt == IF switched THEN metricData(name, metric, timeValues) ELSE ser.data
      \* originalSeriesData.get(series) once the metric step has run
      original == IF switched THEN [has |-> TRUE, data |-> rebuilt] ELSE snap
      isVisible == IF name \in F.hidden THEN FALSE
                   ELSE IF name \in F.shown THEN TRUE
                   ELSE showSeries(F, names, name)
      filteredData ==
        IF original.has /\ hasOriginal
          THEN [j \in 1..Len(visible) |-> pointCopy(original.data, visible[j])]
        ELSE IF original.has /\ hasNumericXAxis
          THEN numericFilter(F.sliderFilters, original.data)
        ELSE rebuilt
  IN  [series |-> [data |-> IF isVisible THEN filteredData ELSE rebuilt,
                   visible |-> isVisible,
                   showInLegend |-> isVisible,
                   type |-> IF ctype # "" THEN ctype ELSE ser.type],
       snap |-> original]

\* a capture that takes the categories now shown on every pass
recapturedCategories(ch) ==
  IF ch.categories.has
    THEN [set |-> TRUE, cats |-> ch.categories.cats]
    ELSE ch.origCats

\* chart._originalCategories after the capture of a pass: captured once, from
\* the categories of the x axis, by the first pass that finds categories
originalCategories(ch) ==
  IF ~ch.origCats.set /\ ch.categories.has
    THEN [set |-> TRUE, cats |-> ch.categories.cats]
    ELSE ch.origCats

\* what one applyAllFilters() call collects from inputState before it visits
\* the charts
collectFilters(S) ==
  [filters       |-> filtersOf(S),
   periodFilters |-> periodFiltersOf(S),
   sliderFilters |-> sliderFiltersOf(S),
   textFilters   |-> textFiltersOf(S),
   numberFilters |-> numberFiltersOf(S),
   hidden        |-> switchHiddenSeries(S),
   shown         |-> switchShownSeries(S)]

\* charts.forEach body on the normal path: the chart and the snapshots of
\* its series after the pass
filterChart(k, ch, osd, S, F) ==
  LET names == ChartCfg[k].names
      origCats == originalCategories(ch)
      hasOriginal == origCats.set
      cats == origCats.cats
      hasNumericXAxis == ~hasOriginal /\ Len(ch.series) > 0 /\ ch.series[1].data # <<>>
      visible == IF hasOriginal THEN visibleCategoryIndices(F, cats) ELSE <<>>
      newCategories == [j \in 1..Len(visible) |-> cats[visible[j]]]
      metric == selectedMetric(F.filters)
      timeValues == IF hasOriginal THEN cats ELSE metricTimeValues
      after == Table([i \in 1..Len(names) |->
                 applySeries(names[i], ch.series[i], osd[<<k, i>>], names,
                             hasOriginal, hasNumericXAxis, visible, timeValues, F)])
  IN  [chart |->
         [origCats   |-> origCats,
          categories |-> IF hasOriginal /\ newCategories # <<>>
                           THEN [has |-> TRUE, cats |-> newCategories]
                           ELSE ch.categories,
          series     |-> [i \in 1..Len(names) |-> after[i].series],
          title      |-> IF metric # "" THEN metric ELSE ch.title,
          yTitle     |-> IF metric # "" THEN metric ELSE ch.yTitle,
          legend     |-> legendAfter(S, ch.legend)],
       snap |-> [i \in 1..Len(names) |-> after[i].snap]]

\* charts.forEach body: a chart with a usable cross-tab is rebuilt from it and
\* skips the normal path
applyChart(k, ch, osd, S, F) ==
  LET rebuilt == IF hasCrossTab(k)
                   THEN rebuildFromCrossTab(ch, ChartCfg[k].names,
                          dashboardrCrossTab[ChartCfg[k].id], F.filters)
                   ELSE [result |-> FALSE, chart |-> ch]
  IN  IF rebuilt.result
        THEN [chart |-> rebuilt.chart,
              snap  |-> [i \in 1..Len(ChartCfg[k].names) |-> osd[<<k, i>>]]]
        ELSE filterChart(k, ch, osd, S, F)

\* the engine's view of the surface: charts, snapshots, pending retry timers
Surface(cs, osd, timers) == [charts |-> cs, osd |-> osd, timers |-> timers]

\* an applyAllFilters() that sets a retry timer whether or not a chart exists
applyRetrying(hc, M, S) == [M EXCEPT !.timers = @ + 1]

\* applyAllFilters() with the surface in state hc: a retry timer while no
\* chart exists, else one pass over every chart
applyAllFilters(hc, M, S) ==
  IF hc # "charts"
    THEN [M EXCEPT !.timers = @ + 1]
    ELSE LET F == collectFilters(Table(S))
             pass == Table([k \in ChartIds |-> applyChart(k, M.charts[k], M.osd, S, F)])
         IN  [charts |-> [k \in ChartIds |-> pass[k].chart],
              osd    |-> [key \in SeriesKeys |-> pass[key[1]].snap[key[2]]],
              timers |-> M.timers]

\* n listeners each calling applyAllFilters()
RECURSIVE applyTimes(_, _, _, _)
applyTimes(n, hc, M, S) ==
  IF n = 0 THEN M ELSE applyTimes(n - 1, hc, applyAllFilters(hc, M, S), S)

----------------------------------------------------------------------------
(* Control registry: discovery, listeners, reset *)

\* f with the entries of g added or replaced
Override(f, g) ==
  Table([x \in DOMAIN f \cup DOMAIN g |-> IF x \in DOMAIN g THEN g[x] ELSE f[x]])

\* the controls initDashboardrInputs() registers in document d
registered(d) == { id \in DOMAIN d : registers(id, d[id]) }

\* initDashboardrInputs(): the eight init functions over the document
initDom(d) ==
  [id \in DOMAIN d |->
     IF id \in registered(d)
       THEN [d[id] EXCEPT !.marker = TRUE, !.listeners = @ + 1]
       ELSE d[id]]

initInputState(d, S) ==
  Override(S, [id \in registered(d) |-> initState(id, d[id].value)])

initDefaultValues(d, D) ==
  Override(D, [id \in registered(d) |->
                 initDefault(id, initState(id, d[id].value))])

\* what a change/input/click listener writes to inputState[id] from DOM value v
listenerState(id, v, st) ==
  LET c == Ctl[id] IN
  CASE c.type \in DiscreteTypes ->
         [st EXCEPT !.selected = selectedOf(id, v), !.arr = "later"]
    [] c.type = "switch" ->
         [st EXCEPT !.selected = IF v THEN <<"true">> ELSE <<"false">>, !.value = v]
    [] c.type = "slider" ->
         [st EXCEPT !.selected = <<v>>, !.value = sliderValue(v)]
    [] c.type = "text" ->
         [st EXCEPT !.selected = <<v>>, !.value = v]
    [] c.type = "number" ->
         [st EXCEPT !.selected = <<v>>, !.value = numberValue(v)]

\* resetFilters, one target: the DOM value the element is given
resetDomValue(id, def) ==
  LET c == Ctl[id] IN
  CASE c.type \in DiscreteTypes -> Range(def.selected) \cap Range(c.options)
    [] c.type = "switch" -> def.value
    [] c.type \in {"slider", "number"} -> StringOfNum(def.value)
    [] c.type = "text" -> def.value

\* a reset that adds the defaults to the selected values instead of replacing them
resetStateAppending(id, st, def) ==
  LET c == Ctl[id] IN
  CASE c.type \in DiscreteTypes ->
         [st EXCEPT !.selected = @ \o def.selected, !.arr = "later"]
    [] c.type = "switch" ->
         [st EXCEPT !.value = def.value,
                    !.selected = IF def.value THEN <<"true">> ELSE <<"false">>]
    [] c.type \in {"slider", "number"} ->
         [st EXCEPT !.value = def.value, !.selected = <<StringOfNum(def.value)>>]
    [] c.type = "text" ->
         [st EXCEPT !.value = def.value, !.selected = <<def.value>>]

\* resetFilters, one target: the inputState entry
resetState(id, st, def) ==
  LET c == Ctl[id] IN
  CASE c.type \in DiscreteTypes ->
         [st EXCEPT !.selected = def.selected, !.arr = "later"]
    [] c.type = "switch" ->
         [st EXCEPT !.value = def.value,
                    !.selected = IF def.value THEN <<"true">> ELSE <<"false">>]
    [] c.type \in {"slider", "number"} ->
         [st EXCEPT !.value = def.value, !.selected = <<StringOfNum(def.value)>>]
    [] c.type = "text" ->
         [st EXCEPT !.value = def.value, !.selected = <<def.value>>]

\* a target selection that restores every control whatever the attribute names
resetTargetsAll(targets, d, S, D) ==
  { id \in DOMAIN D : id \in DOMAIN S /\ id \in DOMAIN d }

\* the ids resetFilters restores for a targets attribute: 'all' is every key
\* of defaultValues; an id without default, state or element is skipped
resetTargets(targets, d, S, D) ==
  { id \in (IF targets.all THEN DOMAIN D ELSE targets.ids) :
      id \in DOMAIN D /\ id \in DOMAIN S /\ id \in DOMAIN d }

resetDom(targets, d, S, D) ==
  LET ids == resetTargets(targets, d, S, D) IN
  Table([id \in DOMAIN d |->
     IF id \in ids
       THEN [d[id] EXCEPT !.value = resetDomValue(id, D[id])]
       ELSE d[id]])

resetInputState(targets, d, S, D) ==
  LET ids == resetTargets(targets, d, S, D) IN
  Table([id \in DOMAIN S |->
     IF id \in ids
       THEN resetState(id, S[id], D[id])
       ELSE S[id]])

----------------------------------------------------------------------------
(* The tab scroll fix: mousedown and click listeners on the tabs of panel
   tabsets *)

\* pending animation-frame callbacks kept at once
MaxFrames == 1
\* pending 50 ms restore timeouts kept at once
MaxRestores == 1

\* the scroll positions of the window
Positions == { [x |-> 0, y |-> 0], [x |-> 0, y |-> 1], [x |-> 1, y |-> 2] }

\* the tabs of the page: nav-links with role tab inside the nav of a panel
\* tabset, each with its data-bs-target or href
TabCfg ==
  [ t1 |-> [tabset |-> "ts1", target |-> "#p1"],
    t2 |-> [tabset |-> "ts1", target |-> "#p2"],
    t3 |-> [tabset |-> "ts1", target |-> "#gone"],
    t4 |-> [tabset |-> "ts1", target |-> "page.html"],
    u1 |-> [tabset |-> "ts2", target |-> "#q1"],
    u2 |-> [tabset |-> "ts2", target |-> "#q2"] ]

Tabs == DOMAIN TabCfg

Tabsets == { TabCfg[t].tabset : t \in Tabs }

\* the tab panes: direct children of the tab-content of their tabset, each
\* with the selector that names its id
PaneCfg ==
  [ p1 |-> [tabset |-> "ts1", selector |-> "#p1"],
    p2 |-> [tabset |-> "ts1", selector |-> "#p2"],
    q1 |-> [tabset |-> "ts2", selector |-> "#q1"],
    q2 |-> [tabset |-> "ts2", selector |-> "#q2"] ]

Panes == DOMAIN PaneCfg

\* targetId.startsWith('#')
startsWithHash(targetId) == targetId \in {"#p1", "#p2", "#gone", "#q1", "#q2"}

\* document.querySelector(targetId): the element with that id, if any
querySelector(targetId) == { p \in Panes : PaneCfg[p].selector = targetId }

\* navTabs.querySelectorAll('.nav-link') of the tabset of tab t
navLinks(t) == { o \in Tabs : TabCfg[o].tabset = TabCfg[t].tabset }

\* tabContent.querySelectorAll(':scope > .tab-pane') of the tabset of tab t
directPanes(t) == { p \in Panes : PaneCfg[p].tabset = TabCfg[t].tabset }

\* a switch that marks the clicked tab without unmarking the others
switchNavKeeping(active, t) == active \cup {t}

\* deactivate every nav-link of the tabset, then activate the clicked tab
switchNav(active, t) == (active \ navLinks(t)) \cup {t}

\* deactivate every direct pane of the tabset, then activate the target pane
switchPanes(active, t) == (active \ directPanes(t)) \cup querySelector(TabCfg[t].target)

TabInit ==
  /\ scroll = [x |-> 0, y |-> 0]
  /\ savedScroll = [x |-> 0, y |-> 0]
  /\ navActive = {"t1", "u1"}
  /\ ariaSelected = {"t1", "u1"}
  /\ paneActive = {"p1", "q1"}
  /\ frames = 0
  /\ restores = 0
  /\ scrollBefore = [x |-> 0, y |-> 0]
  /\ phase = "idle"
  /\ clicked = [ts \in Tabsets |-> ""]

\* the user scrolls the page between interactions
UserScroll(p) ==
  /\ frames = 0 /\ restores = 0
  /\ p # scroll
  /\ scroll' = p
  /\ scrollBefore' = p
  /\ phase' = "idle"
  /\ UNCHANGED <<savedScroll, navActive, ariaSelected, paneActive, frames, restores,
                 clicked>>
  /\ UNCHANGED <<enginevars, modalvars>>

\* mousedown on tab t: the capture listener saves the scroll position
MouseDownOnTab(t) ==
  /\ savedScroll' = scroll
  /\ scrollBefore' = scroll
  /\ phase' = "down"
  /\ UNCHANGED <<scroll, navActive, ariaSelected, paneActive, frames, restores, clicked>>
  /\ UNCHANGED <<enginevars, modalvars>>

\* between mousedown and click the browser focuses the tab and may scroll
FocusScroll(p) ==
  /\ phase = "down"
  /\ p # scroll
  /\ scroll' = p
  /\ UNCHANGED <<savedScroll, navActive, ariaSelected, paneActive, frames, restores,
                 scrollBefore, phase, clicked>>
  /\ UNCHANGED <<enginevars, modalvars>>

\* the click listener on tab t; done names the phase a handled click leaves
ClickListener(t, done) ==
  IF ~startsWithHash(TabCfg[t].target)
    THEN /\ phase' = "idle"
         /\ UNCHANGED <<scroll, savedScroll, navActive, ariaSelected, paneActive,
                        frames, restores, clicked>>
    ELSE /\ frames < MaxFrames /\ restores < MaxRestores
         /\ navActive' = switchNav(navActive, t)
         /\ ariaSelected' = switchNav(ariaSelected, t)
         /\ paneActive' = switchPanes(paneActive, t)
         /\ scroll' = savedScroll
         /\ frames' = frames + 1
         /\ restores' = restores + 1
         /\ phase' = done
         /\ clicked' = [clicked EXCEPT ![TabCfg[t].tabset] = t]
         /\ UNCHANGED savedScroll

\* the click that ends a mouse press on tab t
MouseClickOnTab(t) ==
  /\ phase = "down"
  /\ ClickListener(t, "clicked")
  /\ UNCHANGED scrollBefore
  /\ UNCHANGED <<enginevars, modalvars>>

\* a click on tab t produced without a mousedown (keyboard activation)
KeyboardClickOnTab(t) ==
  /\ phase # "down"
  /\ scrollBefore' = scroll
  /\ ClickListener(t, "keyed")
  /\ UNCHANGED <<enginevars, modalvars>>

\* the requestAnimationFrame callback of a click runs
AnimationFrame ==
  /\ frames > 0
  /\ frames' = frames - 1
  /\ scroll' = savedScroll
  /\ UNCHANGED <<savedScroll, navActive, ariaSelected, paneActive, restores, scrollBefore,
                 phase, clicked>>
  /\ UNCHANGED <<enginevars, modalvars>>

\* the 50 ms timeout of a click runs
RestoreTimeout ==
  /\ restores > 0
  /\ restores' = restores - 1
  /\ scroll' = savedScroll
  /\ UNCHANGED <<savedScroll, navActive, ariaSelected, paneActive, frames, scrollBefore,
                 phase, clicked>>
  /\ UNCHANGED <<enginevars, modalvars>>

TabNext ==
  \/ \E p \in Positions : UserScroll(p)
  \/ \E t \in Tabs : MouseDownOnTab(t)
  \/ \E p \in Positions : FocusScroll(p)
  \/ \E t \in Tabs : MouseClickOnTab(t)
  \/ \E t \in Tabs : KeyboardClickOnTab(t)
  \/ AnimationFrame
  \/ RestoreTimeout

----------------------------------------------------------------------------
(* The modal system: docs/assets/modal.js *)

\* the elements of the document that carry an id, in document order, and
\* whether they carry the class modal-content
ElementCfg ==
  << [id |-> "results", modalContent |-> TRUE],
     [id |-> "Plot",    modalContent |-> TRUE],
     [id |-> "notes",   modalContent |-> FALSE] >>

\* the links of the document: the data-modal attribute ("" when absent), the
\* class modal-link, and the href
LinkCfg ==
  [ exact    |-> [dataModal |-> "",        modalLink |-> TRUE,  href |-> "#results"],
    caseless |-> [dataModal |-> "",        modalLink |-> TRUE,  href |-> "#plot"],
    section  |-> [dataModal |-> "",        modalLink |-> TRUE,  href |-> "#notes"],
    dangling |-> [dataModal |-> "",        modalLink |-> TRUE,  href |-> "#nothing"],
    nohash   |-> [dataModal |-> "",        modalLink |-> TRUE,  href |-> "page.html"],
    data     |-> [dataModal |-> "results", modalLink |-> FALSE, href |-> "#"],
    datagone |-> [dataModal |-> "gone",    modalLink |-> FALSE, href |-> "#"],
    plain    |-> [dataModal |-> "",        modalLink |-> FALSE, href |-> "other.html"] ]

Links == DOMAIN LinkCfg

\* href.substring(href.indexOf('#') + 1), "" when the href has no '#' (null)
\* or nothing after it
fragment(href) ==
  CASE href = "#results" -> "results"
    [] href = "#plot"    -> "plot"
    [] href = "#notes"   -> "notes"
    [] href = "#nothing" -> "nothing"
    [] OTHER             -> ""

\* document.getElementById(id): the position of the element, 0 for null
getElementById(id) ==
  IF \E i \in 1..Len(ElementCfg) : ElementCfg[i].id = id
    THEN CHOOSE i \in 1..Len(ElementCfg) : ElementCfg[i].id = id
    ELSE 0

\* the modalContent the click listener finds for modalId: the element with
\* that id, else the first element whose id matches it case-insensitively
findContent(modalId) ==
  LET matches == { i \in 1..Len(ElementCfg) :
                     toLowerCase(ElementCfg[i].id) = toLowerCase(modalId) }
  IN  IF getElementById(modalId) # 0 THEN getElementById(modalId)
      ELSE IF matches # {} THEN CHOOSE i \in matches : \A o \in matches : i <= o
      ELSE 0

\* the modal as the handlers see it
Modal(d, b, o) == [display |-> d, body |-> b, overflow |-> o]

\* closeModal()
closeModal == Modal("none", "", "")

\* openModal(contentId) on modal M
openModal(contentId, M) ==
  IF getElementById(contentId) = 0 THEN M
  ELSE Modal("flex", contentId, "hidden")

\* the document click listener on link l: whether it calls preventDefault and
\* the id it passes to openModal ("" when it does not call it)
linkClick(l) ==
  LET c == LinkCfg[l]
      modalId == fragment(c.href)
      content == findContent(modalId)
  IN  IF c.dataModal # "" THEN [prevented |-> TRUE, open |-> c.dataModal]
      ELSE IF c.modalLink /\ modalId # "" /\ content # 0
                /\ ElementCfg[content].modalContent
        THEN [prevented |-> TRUE, open |-> modalId]
      ELSE [prevented |-> FALSE, open |-> ""]

\* initializeModals() with o overlays in the document and h sets of
\* listeners attached
initializeModals(o, h) ==
  IF o > 0 THEN [overlays |-> o, handlers |-> h]
  ELSE [overlays |-> o + 1, handlers |-> h + 1]

\* link l is a modal trigger whose content element exists: its data-modal
\* names an element, or its fragment resolves, as the listener resolves it,
\* to an element with class modal-content
Resolves(l) ==
  IF LinkCfg[l].dataModal # "" THEN getElementById(LinkCfg[l].dataModal) # 0
  ELSE /\ LinkCfg[l].modalLink
       /\ fragment(LinkCfg[l].href) # ""
       /\ findContent(fragment(LinkCfg[l].href)) # 0
       /\ ElementCfg[findContent(fragment(LinkCfg[l].href))].modalContent

ModalInit ==
  /\ modalPhase = "loading"
  /\ overlays = 0
  /\ modalHandlers = 0
  /\ display = "none"
  /\ modalBody = ""
  /\ overflow = ""
  /\ lastOp = "none"
  /\ lastClick = [link |-> "", prevented |-> FALSE, opened |-> FALSE]

\* write a modal back
SetModal(M) ==
  /\ display' = M.display
  /\ modalBody' = M.body
  /\ overflow' = M.overflow

\* run initializeModals()
Initialize ==
  /\ overlays' = initializeModals(overlays, modalHandlers).overlays
  /\ modalHandlers' = initializeModals(overlays, modalHandlers).handlers

\* DOMContentLoaded: the script was evaluated while the document was loading
ModalDomReady ==
  /\ modalPhase = "loading"
  /\ modalPhase' = "ready"
  /\ Initialize
  /\ UNCHANGED <<display, modalBody, overflow, lastOp, lastClick>>
  /\ UNCHANGED <<enginevars, tabvars>>

\* the window load event: the fallback initialization
WindowLoad ==
  /\ modalPhase = "ready"
  /\ modalPhase' = "loaded"
  /\ Initialize
  /\ UNCHANGED <<display, modalBody, overflow, lastOp, lastClick>>
  /\ UNCHANGED <<enginevars, tabvars>>

\* the user clicks link l: every attached document click listener runs
LinkClick(l) ==
  /\ LET act == linkClick(l)
         M == Modal(display, modalBody, overflow)
         after == IF modalHandlers = 0 \/ act.open = "" THEN M
                  ELSE openModal(act.open, M)
     IN  /\ SetModal(after)
         /\ lastClick' = [link |-> l,
                          prevented |-> modalHandlers > 0 /\ act.prevented,
                          opened |-> /\ modalHandlers > 0
                                     /\ act.open # ""
                                     /\ getElementById(act.open) # 0]
  /\ lastOp' = IF modalHandlers > 0 /\ Resolves(l) THEN "open" ELSE lastOp
  /\ UNCHANGED <<modalPhase, overlays, modalHandlers>>
  /\ UNCHANGED <<enginevars, tabvars>>

\* the user clicks the close button of the shown modal
CloseClick ==
  /\ display = "flex"
  /\ SetModal(closeModal)
  /\ lastOp' = "close"
  /\ UNCHANGED <<modalPhase, overlays, modalHandlers, lastClick>>
  /\ UNCHANGED <<enginevars, tabvars>>

\* the user clicks the overlay itself, outside the container
OverlayClick ==
  /\ display = "flex"
  /\ SetModal(closeModal)
  /\ lastOp' = "close"
  /\ UNCHANGED <<modalPhase, overlays, modalHandlers, lastClick>>
  /\ UNCHANGED <<enginevars, tabvars>>

\* the user presses Escape: the modal closes when it is shown
EscapeKey ==
  /\ IF modalHandlers > 0 /\ display = "flex"
       THEN SetModal(closeModal) /\ lastOp' = "close"
       ELSE UNCHANGED <<display, modalBody, overflow, lastOp>>
  /\ UNCHANGED <<modalPhase, overlays, modalHandlers, lastClick>>
  /\ UNCHANGED <<enginevars, tabvars>>

ModalNext ==
  \/ ModalDomReady
  \/ WindowLoad
  \/ \E l \in Links : LinkClick(l)
  \/ CloseClick
  \/ OverlayClick
  \/ EscapeKey

----------------------------------------------------------------------------
(* The state machine *)

\* the data-targets attributes of the reset buttons of a page: 'all', one
\* control, or an id that names no control of the page
TargetAttrs(p) ==
  { [all |-> TRUE, ids |-> {}] } \cup
  { [all |-> FALSE, ids |-> {id}] : id \in p } \cup
  { [all |-> FALSE, ids |-> {CHOOSE id \in Ids : id \notin p}] }

Init ==
  /\ page \in Pages
  /\ readyState = "loading"
  /\ \E pick \in [page -> 1..2] :
       dom = [id \in page |->
                [value |-> ServedValues(id)[IF pick[id] <= Len(ServedValues(id))
                                              THEN pick[id] ELSE 1],
                 marker |-> FALSE, listeners |-> 0]]
  /\ inputState = <<>>
  /\ defaultValues = <<>>
  /\ initialized = FALSE
  /\ filtersApplied = FALSE
  /\ highcharts = "undefined"
  /\ charts = [k \in ChartIds |-> NewChart(k)]
  /\ originalSeriesData = [key \in SeriesKeys |-> NoSnapshot]
  /\ waitTimer = FALSE
  /\ applyTimers = 0
  /\ tabTimers = 0
  /\ textTimer = [id \in page |-> 0]
  /\ atInit = <<>>
  /\ last = "other"
  /\ TabInit
  /\ ModalInit

\* the surface as the handlers see it
Now == Surface(charts, originalSeriesData, applyTimers)

\* write a surface back, within the bound on pending retry timers
SetSurface(M) ==
  \E after \in {M} :
    /\ after.timers <= MaxApplyTimers
    /\ charts' = after.charts
    /\ originalSeriesData' = after.osd
    /\ applyTimers' = after.timers

\* run discovery over the document; atInit records, for each control, what
\* its first registration captured
Discover ==
  /\ dom' = initDom(dom)
  /\ inputState' = initInputState(dom, inputState)
  /\ defaultValues' = initDefaultValues(dom, defaultValues)
  /\ atInit' = Override(
       [id \in registered(dom) |->
          [state |-> initInputState(dom, inputState)[id],
           default |-> initDefaultValues(dom, defaultValues)[id],
           value |-> dom[id].value]],
       atInit)

\* waitForChartsAndApply()
WaitForChartsAndApply(S) ==
  IF filtersApplied
    THEN UNCHANGED <<filtersApplied, waitTimer, charts, originalSeriesData, applyTimers>>
  ELSE IF highcharts = "charts"
    THEN /\ filtersApplied' = TRUE
         /\ waitTimer' = FALSE
         /\ SetSurface(applyAllFilters(highcharts,
              Surface(charts, storeOriginalData(charts, originalSeriesData), applyTimers), S))
    ELSE /\ waitTimer' = TRUE
         /\ UNCHANGED <<filtersApplied, charts, originalSeriesData, applyTimers>>

\* DOMContentLoaded: safeInit() then waitForChartsAndApply()
DOMContentLoaded ==
  /\ readyState = "loading"
  /\ readyState' = "complete"
  /\ initialized' = TRUE
  /\ IF initialized
       THEN UNCHANGED <<dom, inputState, defaultValues, atInit>>
       ELSE Discover
  /\ WaitForChartsAndApply(inputState')
  /\ last' = "other"
  /\ UNCHANGED <<page, highcharts, tabTimers, textTimer>>
  /\ UNCHANGED <<tabvars, modalvars>>

\* window.dashboardrInputs.init()
ApiInit ==
  /\ Discover
  /\ last' = "init"
  /\ UNCHANGED <<page, readyState, initialized, filtersApplied, highcharts, charts,
                 originalSeriesData, waitTimer, applyTimers, tabTimers, textTimer>>
  /\ UNCHANGED <<tabvars, modalvars>>

\* window.dashboardrFilterHook(inputId, filterVar, attempt)
FilterHook ==
  /\ IF readyState # "loading"
       THEN Discover
       ELSE UNCHANGED <<dom, inputState, defaultValues, atInit>>
  /\ last' = IF readyState # "loading" THEN "init" ELSE "other"
  /\ UNCHANGED <<page, readyState, initialized, filtersApplied, highcharts, charts,
                 originalSeriesData, waitTimer, applyTimers, tabTimers, textTimer>>
  /\ UNCHANGED <<tabvars, modalvars>>

\* the listeners of a control run: each writes inputState[id] from the DOM
\* value v and calls applyAllFilters()
RunListeners(id, v) ==
  IF dom[id].listeners = 0
    THEN UNCHANGED <<inputState, charts, originalSeriesData, applyTimers>>
    ELSE /\ inputState' = [inputState EXCEPT ![id] = listenerState(id, v, @)]
         /\ SetSurface(applyTimes(dom[id].listeners, highcharts, Now, inputState'))

\* the user changes a select, checkbox group, radio group, switch, slider or
\* number input: the browser updates the element and fires change/input
UserChange(id, v) ==
  /\ readyState = "complete"
  /\ Ctl[id].type \notin {"button_group", "text"}
  /\ v # dom[id].value
  /\ Ctl[id].type = "radio" => v # {}
  /\ dom' = [dom EXCEPT ![id].value = v]
  /\ RunListeners(id, v)
  /\ last' = "change"
  /\ UNCHANGED <<page, readyState, defaultValues, initialized, filtersApplied,
                 highcharts, waitTimer, tabTimers, textTimer, atInit>>
  /\ UNCHANGED <<tabvars, modalvars>>

\* a click listener that marks the clicked button without unmarking the others
activateKeeping(v, b) == v \cup {b}

\* the click listener of a button: buttons.forEach(b => b.classList.remove('active'))
\* then btn.classList.add('active'), on the set v of active buttons
activate(v, b) == (v \ v) \cup {b}

\* the user clicks option b of a button group: only the click listener moves
\* the active class
ButtonClick(id, b) ==
  /\ readyState = "complete"
  /\ Ctl[id].type = "button_group"
  /\ dom' = IF dom[id].listeners = 0 THEN dom
            ELSE [dom EXCEPT ![id].value = activate(@, b)]
  /\ RunListeners(id, {b})
  /\ last' = "change"
  /\ UNCHANGED <<page, readyState, defaultValues, initialized, filtersApplied,
                 highcharts, waitTimer, tabTimers, textTimer, atInit>>
  /\ UNCHANGED <<tabvars, modalvars>>

\* a listener that leaves its pending timeout alone
keepTimeout(pending) == pending

\* clearTimeout(debounceTimer): the pending timeout of the listener is cancelled
clearTimeout(pending) == 0

\* the user types in a text input: each input listener cancels its pending
\* timeout and sets a new one
TextInput(id, v) ==
  /\ readyState = "complete"
  /\ Ctl[id].type = "text"
  /\ v # dom[id].value
  /\ dom' = [dom EXCEPT ![id].value = v]
  /\ IF dom[id].listeners = 0
       THEN textTimer' = textTimer
       ELSE /\ clearTimeout(textTimer[id]) + dom[id].listeners <= MaxTextTimers
            /\ textTimer' = [textTimer EXCEPT
                               ![id] = clearTimeout(@) + dom[id].listeners]
  /\ last' = "other"
  /\ UNCHANGED <<page, readyState, inputState, defaultValues, initialized,
                 filtersApplied, highcharts, charts, originalSeriesData, waitTimer,
                 applyTimers, tabTimers, atInit>>
  /\ UNCHANGED <<tabvars, modalvars>>

\* a debounce timeout of a text input fires: its callback writes the state
\* from the DOM value of that moment and calls applyAllFilters()
TextTimerFire(id) ==
  /\ textTimer[id] > 0
  /\ textTimer' = [textTimer EXCEPT ![id] = @ - 1]
  /\ inputState' = [inputState EXCEPT ![id] = listenerState(id, dom[id].value, @)]
  /\ SetSurface(applyAllFilters(highcharts, Now, inputState'))
  /\ last' = "change"
  /\ UNCHANGED <<page, readyState, dom, defaultValues, initialized, filtersApplied,
                 highcharts, waitTimer, tabTimers, atInit>>
  /\ UNCHANGED <<tabvars, modalvars>>

\* selectAll(inputId) / clearAll(inputId) on a native select: every option is
\* selected (deselected) and a change event is dispatched; an id that names no
\* element returns at once
SelectOrClearAll(op, id, v) ==
  /\ IF id \in page
       THEN /\ Ctl[id].type = "select"
            /\ dom' = [dom EXCEPT ![id].value = v]
            /\ RunListeners(id, v)
            /\ last' = op
       ELSE /\ UNCHANGED <<dom, inputState, charts, originalSeriesData, applyTimers>>
            /\ last' = op
  /\ UNCHANGED <<page, readyState, defaultValues, initialized, filtersApplied,
                 highcharts, waitTimer, tabTimers, textTimer, atInit>>
  /\ UNCHANGED <<tabvars, modalvars>>

selectAll(id) == SelectOrClearAll("change", id, Range(Ctl[id].options))

clearAll(id) == SelectOrClearAll("change", id, {})

\* resetFilters(button) for a button whose data-targets is targets
resetFilters(targets) ==
  /\ dom' = resetDom(targets, dom, inputState, defaultValues)
  /\ inputState' = resetInputState(targets, dom, inputState, defaultValues)
  /\ SetSurface(applyAllFilters(highcharts, Now, inputState'))
  /\ last' = "reset"
  /\ UNCHANGED <<page, readyState, defaultValues, initialized, filtersApplied,
                 highcharts, waitTimer, tabTimers, textTimer, atInit>>
  /\ UNCHANGED <<tabvars, modalvars>>

\* resetFilters(button) for a button without a data-targets attribute:
\* targetsAttr is undefined and targetsAttr.split(',') throws a TypeError, which
\* reaches the caller before any control is restored
resetFiltersNoTargets ==
  /\ readyState = "complete"
  /\ last' = "throw"
  /\ UNCHANGED <<page, readyState, dom, inputState, defaultValues, initialized,
                 filtersApplied, highcharts, charts, originalSeriesData, waitTimer,
                 applyTimers, tabTimers, textTimer, atInit>>
  /\ UNCHANGED <<tabvars, modalvars>>

\* window.dashboardrInputs.applyFilters()
applyFilters ==
  /\ SetSurface(applyAllFilters(highcharts, Now, inputState))
  /\ last' = "other"
  /\ UNCHANGED <<page, readyState, dom, inputState, defaultValues, initialized,
                 filtersApplied, highcharts, waitTimer, tabTimers, textTimer, atInit>>
  /\ UNCHANGED <<tabvars, modalvars>>

\* window.dashboardrInputs.reapply()
reapplyFilters ==
  /\ SetSurface(applyAllFilters(highcharts, Now, inputState))
  /\ last' = "other"
  /\ UNCHANGED <<page, readyState, dom, inputState, defaultValues, initialized,
                 filtersApplied, highcharts, waitTimer, tabTimers, textTimer, atInit>>
  /\ UNCHANGED <<tabvars, modalvars>>

\* a pending applyAllFilters retry fires
ApplyRetry ==
  /\ applyTimers > 0
  /\ SetSurface(applyAllFilters(highcharts,
       Surface(charts, originalSeriesData, applyTimers - 1), inputState))
  /\ last' = "retry"
  /\ UNCHANGED <<page, readyState, dom, inputState, defaultValues, initialized,
                 filtersApplied, highcharts, waitTimer, tabTimers, textTimer, atInit>>
  /\ UNCHANGED <<tabvars, modalvars>>

\* the pending waitForChartsAndApply poll fires
WaitPoll ==
  /\ waitTimer
  /\ WaitForChartsAndApply(inputState)
  /\ last' = "other"
  /\ UNCHANGED <<page, readyState, dom, inputState, defaultValues, initialized,
                 highcharts, tabTimers, textTimer, atInit>>
  /\ UNCHANGED <<tabvars, modalvars>>

\* a click on a tab element schedules the deferred re-application
TabClick ==
  /\ readyState = "complete"
  /\ tabTimers < MaxTabTimers
  /\ tabTimers' = tabTimers + 1
  /\ last' = "other"
  /\ UNCHANGED <<page, readyState, dom, inputState, defaultValues, initialized,
                 filtersApplied, highcharts, charts, originalSeriesData, waitTimer,
                 applyTimers, textTimer, atInit>>
  /\ UNCHANGED <<tabvars, modalvars>>

\* the tab-switch timeout fires: storeOriginalData() and applyAllFilters()
\* when Highcharts is defined
TabTimerFire ==
  /\ tabTimers > 0
  /\ tabTimers' = tabTimers - 1
  /\ IF highcharts = "undefined"
       THEN UNCHANGED <<charts, originalSeriesData, applyTimers>>
       ELSE SetSurface(applyAllFilters(highcharts,
              Surface(charts,
                      IF highcharts = "charts"
                        THEN storeOriginalData(charts, originalSeriesData)
                        ELSE originalSeriesData,
                      applyTimers), inputState))
  /\ last' = "other"
  /\ UNCHANGED <<page, readyState, dom, inputState, defaultValues, initialized,
                 filtersApplied, highcharts, waitTimer, textTimer, atInit>>
  /\ UNCHANGED <<tabvars, modalvars>>

\* the charting library finishes loading; later it constructs the charts
HighchartsLoads ==
  /\ highcharts = "undefined"
  /\ highcharts' = "nocharts"
  /\ last' = "other"
  /\ UNCHANGED <<page, readyState, dom, inputState, defaultValues, initialized,
                 filtersApplied, charts, originalSeriesData, waitTimer, applyTimers,
                 tabTimers, textTimer, atInit>>
  /\ UNCHANGED <<tabvars, modalvars>>

ChartsRender ==
  /\ highcharts = "nocharts"
  /\ highcharts' = "charts"
  /\ last' = "other"
  /\ UNCHANGED <<page, readyState, dom, inputState, defaultValues, initialized,
                 filtersApplied, charts, originalSeriesData, waitTimer, applyTimers,
                 tabTimers, textTimer, atInit>>
  /\ UNCHANGED <<tabvars, modalvars>>

Next ==
  \/ DOMContentLoaded
  \/ ApiInit
  \/ FilterHook
  \/ \E id \in page : \E v \in DomValues(id) : UserChange(id, v)
  \/ \E id \in page : \E b \in Range(Ctl[id].options) : ButtonClick(id, b)
  \/ \E id \in page : \E v \in DomValues(id) : TextInput(id, v)
  \/ \E id \in page : TextTimerFire(id)
  \/ selectAll("year")
  \/ clearAll("year")
  \/ \E targets \in TargetAttrs(page) : resetFilters(targets)
  \/ resetFiltersNoTargets
  \/ applyFilters
  \/ reapplyFilters
  \/ ApplyRetry
  \/ WaitPoll
  \/ TabClick
  \/ TabTimerFire
  \/ HighchartsLoads
  \/ ChartsRender

Spec == Init /\ [][Next]_vars

\* the tab scroll fix alone: the listeners of the first IIFE of
\* tab-scroll-fix.js share no state with the filter engine
TabSpec == Init /\ [][TabNext]_vars

\* the modal system alone: modal.js shares no state with the other scripts
ModalSpec == Init /\ [][ModalNext]_vars

\* no chart object exists: Highcharts is undefined or Highcharts.charts is empty
NoCharts == highcharts # "charts"

\* The browser runs every pending timeout. While no chart exists this is weak
\* fairness of each timer callback. Once charts exist a timer callback always
\* consumes its timer, so it is enabled exactly when its timer is pending, and
\* its weak fairness is written out as: infinitely often the timer is not
\* pending, or infinitely often the callback runs.
FairSpec ==
  /\ Spec
  /\ WF_vars(NoCharts /\ WaitPoll)
  /\ WF_vars(NoCharts /\ ApplyRetry)
  /\ WF_vars(NoCharts /\ TabTimerFire)
  /\ WF_vars(NoCharts /\ \E id \in page : TextTimerFire(id))
  /\ \/ []<>~(~NoCharts /\ waitTimer /\ ~filtersApplied)
     \/ []<><<~NoCharts /\ WaitPoll>>_vars
  /\ \/ []<>~(~NoCharts /\ applyTimers > 0)
     \/ []<><<~NoCharts /\ ApplyRetry>>_vars
  /\ \/ []<>~(~NoCharts /\ tabTimers > 0)
     \/ []<><<~NoCharts /\ TabTimerFire>>_vars
  /\ \/ []<>~(~NoCharts /\ \E id \in page : textTimer[id] > 0)
     \/ []<><<~NoCharts /\ \E id \in page : TextTimerFire(id)>>_vars

----------------------------------------------------------------------------
(* Properties of the filter application engine *)

\* the snapshots of every series of chart k have been captured
Captured(k) ==
  \A i \in 1..Len(ChartCfg[k].names) : originalSeriesData[<<k, i>>].has

\* the surface one applyAllFilters() call leaves, from the current state
AfterPass == applyAllFilters("charts", Now, inputState)

\* the view one pass computes for chart k as constructed, from the current
\* snapshots and the current control states
FreshView(k) ==
  applyChart(k, NewChart(k), originalSeriesData, inputState,
             collectFilters(inputState)).chart

\* C1: history independence. After a pass over a chart whose snapshot has been
\* captured, the categories shown and the data of every visible series are
\* those a single pass computes from the snapshot and the current control
\* states, whatever changes, resets and re-applications came before.
C1_HistoryIndependent ==
  \A k \in ChartIds :
    (highcharts = "charts" /\ Captured(k)) =>
      /\ AfterPass.charts[k].categories = FreshView(k).categories
      /\ \A i \in 1..Len(ChartCfg[k].names) :
           AfterPass.charts[k].series[i].visible =>
             AfterPass.charts[k].series[i].data = FreshView(k).series[i].data

\* C2: applyAllFilters is idempotent. From every reachable state with charts,
\* a second call in a row changes no chart: categories, visibility, legend
\* membership and data stay as the first call left them.
C2_ApplyIdempotent ==
  highcharts = "charts" =>
    applyAllFilters("charts", AfterPass, inputState) = AfterPass

\* a pass has narrowed the categories of chart 1 and the data of its series
C2_Witness ==
  /\ highcharts = "charts"
  /\ Captured(1)
  /\ AfterPass = Now
  /\ Len(charts[1].categories.cats) < Len(ChartCfg[1].categories)
  /\ Len(charts[1].series[1].data) = Len(charts[1].categories.cats)

\* C3: snapshot immutability. Once captured, a series' originalSeriesData
\* entry and a chart's _originalCategories are changed by no later step.
C3_SnapshotImmutable ==
  [][/\ \A key \in SeriesKeys :
          originalSeriesData[key].has =>
            originalSeriesData'[key] = originalSeriesData[key]
     /\ \A k \in ChartIds :
          charts[k].origCats.set => charts'[k].origCats = charts[k].origCats]_vars

----------------------------------------------------------------------------
(* Properties of the control registry *)

\* the selected values and the value of a control state
valueOf(st) ==
  IF "value" \in DOMAIN st THEN <<st.selected, <<st.value>> >> ELSE <<st.selected>>

\* the control state st holds DOM value v of control id
MatchesDom(id, st, v) ==
  LET c == Ctl[id] IN
  CASE c.type \in DiscreteTypes ->
         Range(st.selected) = v /\ Len(st.selected) = Cardinality(v)
    [] c.type = "switch" -> st.value = v
    [] c.type = "text" -> st.value = v /\ st.selected = <<v>>
    [] c.type \in {"slider", "number"} ->
         /\ st.selected = <<v>>
         /\ IF parseFloat(v).nan THEN st.value.nan ELSE st.value = parseFloat(v)

\* the control state st holds the default snapshot def
AtDefault(st, def) ==
  IF "value" \in DOMAIN def THEN st.value = def.value ELSE st.selected = def.selected

\* C4: default snapshot immutability. For every initialized control
\* defaultValues[id] is what its first registration captured, whatever
\* happened since, and its array is not the control state's selected array.
C4_DefaultsImmutable ==
  \A id \in DOMAIN defaultValues :
    /\ id \in DOMAIN atInit
    /\ defaultValues[id] = atInit[id].default
    /\ Ctl[id].type \in DiscreteTypes => defaultValues[id].arr # inputState[id].arr

\* a user change has moved a control away from its default
C4_Witness ==
  /\ last = "change"
  /\ \E id \in DOMAIN defaultValues :
       Ctl[id].type \in DiscreteTypes /\ ~AtDefault(inputState[id], defaultValues[id])

\* C5: discovery is idempotent. A call of init() leaves inputState,
\* defaultValues and the listener count of every registered control as they
\* were: every registered control has one listener, so that a change event
\* writes its state once and calls applyAllFilters() once (while no chart
\* exists each call leaves one retry timer).
C5_InitIdempotent ==
  [][/\ last' = "init" =>
          \A id \in DOMAIN inputState :
            /\ inputState'[id] = inputState[id]
            /\ defaultValues'[id] = defaultValues[id]
            /\ dom'[id].listeners = dom[id].listeners
     /\ \A id \in DOMAIN inputState' : dom'[id].listeners = 1
     /\ (last' = "change" /\ highcharts # "charts") =>
          applyTimers' <= applyTimers + 1]_vars

\* init() has just been called again after the user changed a control
C5_Witness ==
  /\ last = "init"
  /\ \E id \in DOMAIN inputState :
       valueOf(inputState[id]) # valueOf(atInit[id].state)

\* C6: right after its registration, the state of every control holds the
\* control's DOM value, a number input with an empty value included.
C6_StateEqualsDomAfterInit ==
  \A id \in DOMAIN atInit : MatchesDom(id, atInit[id].state, atInit[id].value)

\* the step is a resetFilters call for a button whose data-targets is targets
ResetStep(targets) ==
  /\ last' = "reset"
  /\ dom' = resetDom(targets, dom, inputState, defaultValues)
  /\ inputState' = resetInputState(targets, dom, inputState, defaultValues)

\* C7: after resetFilters every restored control's state and DOM value hold
\* the default snapshot, and the state is the one the control had right after
\* its registration.
C7_ResetRestoresInitialState ==
  [][\A targets \in TargetAttrs(page) :
       ResetStep(targets) =>
         \A id \in resetTargets(targets, dom, inputState, defaultValues) :
           /\ AtDefault(inputState'[id], defaultValues[id])
           /\ AtDefault(initState(id, dom'[id].value), defaultValues[id])
           /\ valueOf(inputState'[id]) = valueOf(atInit[id].state)]_vars

\* C8: reset is idempotent. From every reachable state and for every target
\* list, a second resetFilters changes neither the control states nor the DOM
\* values the first one left.
C8_ResetIdempotent ==
  \A targets \in TargetAttrs(page) :
    LET d1 == resetDom(targets, dom, inputState, defaultValues)
        S1 == resetInputState(targets, dom, inputState, defaultValues)
    IN  /\ resetDom(targets, d1, S1, defaultValues) = d1
        /\ resetInputState(targets, d1, S1, defaultValues) = S1

\* a reset has just left every control at its default
C8_Witness ==
  /\ last = "reset"
  /\ \A id \in DOMAIN inputState : AtDefault(inputState[id], defaultValues[id])
  /\ \E id \in DOMAIN inputState :
       Ctl[id].type \in DiscreteTypes /\ inputState[id].arr = "later"
         /\ inputState[id].selected # <<>>

\* C9: a resetFilters call makes exactly one applyAllFilters() call (while no
\* chart exists, it leaves exactly one more retry timer), registers
\* nothing and attaches nothing, changes nothing when its targets name no
\* registered control, and leaves every control outside its targets as it was.
C9_ResetFrame ==
  [][\A targets \in TargetAttrs(page) :
       ResetStep(targets) =>
         /\ highcharts # "charts" => applyTimers' = applyTimers + 1
         /\ DOMAIN inputState' = DOMAIN inputState
         /\ defaultValues' = defaultValues
         /\ \A id \in page :
              /\ dom'[id].marker = dom[id].marker
              /\ dom'[id].listeners = dom[id].listeners
              /\ (~targets.all /\ id \notin targets.ids) =>
                   /\ dom'[id] = dom[id]
                   /\ id \in DOMAIN inputState => inputState'[id] = inputState[id]
         /\ (~targets.all /\ targets.ids \cap DOMAIN inputState = {}) =>
              inputState' = inputState /\ dom' = dom]_vars

\* a reset of one control has left another, changed, control as it was
C9_Witness ==
  /\ last = "reset"
  /\ \E a \in DOMAIN inputState : \E b \in DOMAIN inputState :
       /\ a # b
       /\ AtDefault(inputState[a], defaultValues[a])
       /\ ~AtDefault(inputState[b], defaultValues[b])

\* the categories a period preset keeps: the years of its range, and every
\* category that is not a number
PresetKeeps(preset, cat) ==
  LET catNum == parseFloat(cat) IN
  \/ catNum.nan
  \/ CASE preset = "2015-2019" -> 2015 <= catNum.n /\ catNum.n <= 2019
        [] preset = "2020+"     -> 2020 <= catNum.n
        [] OTHER                -> TRUE

\* C10: period presets. After a pass, with a registered control bound to
\* 'period', every chart shows exactly the original categories its preset
\* keeps, in original order: 2015 to 2019 inclusive, 2020 and later, or all of
\* them for a preset with the token 'All'.
C10_PeriodPresets ==
  (highcharts = "charts" /\ "period" \in DOMAIN inputState
     /\ inputState["period"].selected # <<>>) =>
    \A k \in ChartIds :
      AfterPass.charts[k].origCats.set =>
        LET keep == SelectSeq(AfterPass.charts[k].origCats.cats,
                              LAMBDA cat : PresetKeeps(inputState["period"].selected[1], cat))
        IN  keep # <<>> => AfterPass.charts[k].categories.cats = keep

\* the 2015-2019 preset has narrowed [2014, 2015, 2016, 2020, 2021]
C10_Witness ==
  /\ highcharts = "charts"
  /\ "period" \in DOMAIN inputState
  /\ inputState["period"].selected = <<"2015-2019">>
  /\ charts[1].origCats.cats = <<"2014", "2015", "2016", "2020", "2021">>
  /\ charts[1].categories.cats = <<"2015", "2016">>

----------------------------------------------------------------------------
(* Properties of the slider, switch and cross-tab steps *)

\* the filters of a pass in which one slider is the only active control
OnlySlider(info) ==
  [filters |-> <<>>, periodFilters |-> <<>>, sliderFilters |-> [s |-> info],
   textFilters |-> <<>>, numberFilters |-> <<>>, hidden |-> {}, shown |-> {}]

\* labelled sliders: those registered in the current state, and sliders with
\* each label list below at every position, a value that is not a number
\* included
LabelledSliders ==
  { info \in { sliderFiltersOf(inputState)[fv] : fv \in DOMAIN sliderFiltersOf(inputState) } :
      info.labels # <<>> }
  \cup
  { [value |-> v, min |-> 0, max |-> 2, step |-> 1, labels |-> L] :
      v \in {JsNum(0), JsNum(1), JsNum(2), NaN},
      L \in { <<"2014", "2015">>, <<"2015", "2019">>, <<"2014", "">> } }

\* category lists: those of the charts, and one with a category named ""
CategoryLists ==
  { ChartCfg[k].categories : k \in { c \in ChartIds : ChartCfg[c].hasCategories } }
  \cup { <<"2014", "", "2015">> }

\* the original positions a labelled slider is to keep: from the position of
\* the category equal to the label at index round((v - m) / s), or all of
\* them when there is no such label or no such category
KeepFrom(info, cats) ==
  LET i == IF info.value.nan THEN 0
           ELSE RoundDiv(info.value.n - info.min, info.step) + 1
      matches == IF i \in 1..Len(info.labels)
                   THEN { p \in 1..Len(cats) : cats[p] = info.labels[i] }
                   ELSE {}
  IN  SelectSeq([p \in 1..Len(cats) |-> p],
                LAMBDA p : matches # {} => \E q \in matches : q <= p)

\* C11: labelled slider keep-from. A slider whose label at index
\* round((v - m) / s) equals the original category at position p keeps exactly
\* the categories at original positions >= p; with an index out of range or a
\* label that matches no category it narrows nothing.
C11_LabelledSliderKeepFrom ==
  \A info \in LabelledSliders : \A cats \in CategoryLists :
    visibleCategoryIndices(OnlySlider(info), cats) = KeepFrom(info, cats)

\* the series names a registered switch that is off is bound to
SwitchedOff ==
  { inputState[id].toggleSeries : id \in { c \in DOMAIN inputState :
      /\ inputState[c].inputType = "switch"
      /\ inputState[c].toggleSeries # ""
      /\ ~inputState[c].value } }

\* C12: switch force-hide. Whenever a switch bound to a series name is off,
\* after a filter application every chart series of that name is hidden and
\* left out of the legend, whatever the other controls hold.
C12_SwitchForceHide ==
  highcharts = "charts" =>
    \A k \in ChartIds : \A i \in 1..Len(ChartCfg[k].names) :
      ChartCfg[k].names[i] \in SwitchedOff =>
        /\ ~AfterPass.charts[k].series[i].visible
        /\ ~AfterPass.charts[k].series[i].showInLegend

\* the series names a registered switch that is on with override is bound to,
\* and those a switch that is on without override is bound to
SwitchedOnOverride ==
  { inputState[id].toggleSeries : id \in { c \in DOMAIN inputState :
      /\ inputState[c].inputType = "switch"
      /\ inputState[c].toggleSeries # ""
      /\ inputState[c].value /\ inputState[c].override } }

SwitchedOnPlain ==
  { inputState[id].toggleSeries : id \in { c \in DOMAIN inputState :
      /\ inputState[c].inputType = "switch"
      /\ inputState[c].toggleSeries # ""
      /\ inputState[c].value /\ ~inputState[c].override } }

\* a discrete series filter or an active text filter of the current control
\* states excludes the series called name from chart k
Excluded(k, name) ==
  LET names == Range(ChartCfg[k].names) IN
  \/ \E id \in DOMAIN inputState :
       /\ inputState[id].inputType \in DiscreteTypes
       /\ inputState[id].filterVar # "period"
       /\ Range(inputState[id].selected) \cap names # {}
       /\ name \notin Range(inputState[id].selected)
  \/ \E id \in DOMAIN inputState :
       /\ inputState[id].inputType = "text"
       /\ TrimLower(inputState[id].value) # ""
       /\ \E n \in names : Includes(TrimLower(n), TrimLower(inputState[id].value))
       /\ ~Includes(TrimLower(name), TrimLower(inputState[id].value))

\* chart k is rebuilt from its cross-tab and skips the normal path
Rebuilt(k) ==
  /\ hasCrossTab(k)
  /\ dashboardrCrossTab[ChartCfg[k].id].hasData
  /\ dashboardrCrossTab[ChartCfg[k].id].hasConfig

\* C13: switch override. After a filter application a series bound to a
\* switch that is on with override, and to no switch that is off, is visible
\* and in the legend even when a text filter or a discrete series filter
\* excludes it; a series bound only to a switch that is on without override is
\* hidden when a filter excludes it.
C13_SwitchOverride ==
  highcharts = "charts" =>
    \A k \in ChartIds : \A i \in 1..Len(ChartCfg[k].names) :
      LET name == ChartCfg[k].names[i] IN
      /\ (name \in SwitchedOnOverride /\ name \notin SwitchedOff) =>
           /\ AfterPass.charts[k].series[i].visible
           /\ AfterPass.charts[k].series[i].showInLegend
      /\ (/\ name \in SwitchedOnPlain
          /\ name \notin SwitchedOnOverride
          /\ name \notin SwitchedOff
          /\ ~Rebuilt(k)
          /\ Excluded(k, name)) =>
           /\ ~AfterPass.charts[k].series[i].visible
           /\ ~AfterPass.charts[k].series[i].showInLegend

\* the switch for B is on with override, the country filter selects only A,
\* and a pass has left series B of chart 1 visible
C13_Witness ==
  /\ highcharts = "charts"
  /\ AfterPass = Now
  /\ "B" \in SwitchedOnOverride
  /\ Excluded(1, "B")
  /\ charts[1].series[2].visible
  /\ charts[1].series[2].showInLegend

\* cross-tab configs in percent mode: stackOrder and xOrder absent or
\* supplied, a stackOrder that lists one of the two answers and an xOrder with
\* a bucket that has no row included
PercentConfigs ==
  { [crossTabConfig EXCEPT !.stackOrder = so, !.xOrder = xo] :
      so \in { <<>>, <<"B", "A">>, <<"A">> },
      xo \in { <<>>, <<"2015", "2014">>, <<"2014", "2015", "2016">> } }

\* the sum of the values written to a series for x bucket j
RECURSIVE emittedSum(_, _)
emittedSum(out, j) ==
  IF out = <<>> THEN 0
  ELSE (IF Head(out).series # 0 THEN Head(out).data[j][1] ELSE 0)
         + emittedSum(Tail(out), j)

\* C14: cross-tab percent mode. For every config in percent mode and the rows
\* the current selections keep, the values rebuildFromCrossTab emits for an x
\* bucket with a total above 0 add up to 100 over the emitted stack series.
C14_PercentSumsTo100 ==
  \A config \in PercentConfigs :
    LET rows == crossTabFilter(crossTabRows, config.filterVars, filtersOf(inputState))
        xs == orderedX(rows, config)
        out == emitted(ChartCfg[4].names, rows, config, xs)
    IN  \A j \in 1..Len(xs) :
          xTotals(rows, config, xs[j]) > 0 => emittedSum(out, j) = 100

\* the selected values of a filter variable in the current control states
SelectedFor(fv) ==
  IF fv \in DOMAIN filtersOf(inputState) THEN Range(filtersOf(inputState)[fv]) ELSE {}

\* a selected value that names "All", in any case
NamesAll(v) ==
  v \in {"all", "All", "ALL", "alle", "Alle", "tous", "Tous", "todo", "Todo",
         "tutti", "Tutti", "subete", "quanbu"}

\* the rows the selections are to keep: for each filter variable, nothing
\* selected, an "All" among the selected values, or the row's value selected
KeepsRow(config, row) ==
  \A fv \in Range(config.filterVars) :
    \/ SelectedFor(fv) = {}
    \/ \E v \in SelectedFor(fv) : NamesAll(v)
    \/ row[fv] \in SelectedFor(fv)

\* C15: cross-tab 'All' token. The rows rebuildFromCrossTab aggregates are
\* those of the cross-tab that every filter variable keeps: a variable with an
\* "All" among its selected values, in any case, removes no row, and any other
\* non-empty selection keeps exactly the rows whose value is selected. The
\* rebuilt chart shows the x buckets of those rows.
C15_AllToken ==
  LET kept == SelectSeq(crossTabRows, LAMBDA row : KeepsRow(crossTabConfig, row)) IN
  /\ crossTabFilter(crossTabRows, crossTabConfig.filterVars, filtersOf(inputState)) = kept
  /\ highcharts = "charts" =>
       Range(AfterPass.charts[4].categories.cats) = { kept[i].wave : i \in 1..Len(kept) }

\* "ALL" and "North" are both selected for region, B for country, and the
\* rebuilt chart shows the bucket whose only row is from the South
C15_Witness ==
  /\ highcharts = "charts"
  /\ AfterPass = Now
  /\ "region" \in DOMAIN inputState
  /\ inputState["region"].selected = <<"ALL", "North">>
  /\ inputState["country"].selected = <<"B">>
  /\ charts[4].categories.cats = <<"2014", "2015">>

----------------------------------------------------------------------------
(* The calls a pass makes on a chart, each with its redraw argument *)

Call(op, redraw) == [op |-> op, redraw |-> redraw]

\* the sequences of a sequence of sequences, joined
RECURSIVE Flatten(_)
Flatten(ss) == IF ss = <<>> THEN <<>> ELSE Head(ss) \o Flatten(Tail(ss))

\* a pass that ends without redrawing the chart
noRedrawCall == <<>>

\* chart.redraw()
redrawCall == << Call("chart.redraw", TRUE) >>

\* the calls of rebuildFromCrossTab on a chart it rebuilds
crossTabCalls(names, crossTabInfo, filters) ==
  LET config == crossTabInfo.config
      rows == crossTabFilter(crossTabInfo.data, config.filterVars, filters)
      out == emitted(names, rows, config, orderedX(rows, config))
  IN  << Call("xAxis.setCategories", FALSE) >>
      \o Flatten([p \in 1..Len(out) |->
                    IF out[p].series # 0 THEN << Call("series.setData", FALSE) >> ELSE <<>>])
      \o redrawCall

\* the calls of the normal path on a chart
filterCalls(k, ch, osd, S, F) ==
  LET names == ChartCfg[k].names
      origCats == originalCategories(ch)
      hasOriginal == origCats.set
      cats == origCats.cats
      hasNumericXAxis == ~hasOriginal /\ Len(ch.series) > 0 /\ ch.series[1].data # <<>>
      visible == IF hasOriginal THEN visibleCategoryIndices(F, cats) ELSE <<>>
      metric == selectedMetric(F.filters)
      timeValues == IF hasOriginal THEN cats ELSE metricTimeValues
      after == Table([i \in 1..Len(names) |->
                 applySeries(names[i], ch.series[i], osd[<<k, i>>], names,
                             hasOriginal, hasNumericXAxis, visible, timeValues, F)])
      legendIds == { id \in DOMAIN S : isSwitchCtl(S, id) /\ S[id].filterVar = "show_legend" }
      legendCalls == [i \in 1..Cardinality(legendIds) |-> Call("legend.update", FALSE)]
      typeCalls == IF chartTypeOf(F.filters) # ""
                     THEN [i \in 1..Len(names) |-> Call("series.update", FALSE)]
                     ELSE <<>>
      metricCalls ==
        IF metric # ""
          THEN Flatten([i \in 1..Len(names) |->
                          IF countryData(names[i], metric) # <<>>
                            THEN << Call("series.setData", FALSE) >> ELSE <<>>])
               \o << Call("chart.setTitle", FALSE), Call("yAxis.setTitle", FALSE) >>
          ELSE <<>>
      seriesCalls ==
        Flatten([i \in 1..Len(names) |->
          << Call("series.setVisible", FALSE), Call("series.update", FALSE) >>
          \o (IF after[i].series.visible /\ after[i].snap.has
                   /\ (hasOriginal \/ hasNumericXAxis)
                THEN << Call("series.setData", FALSE) >> ELSE <<>>)])
      categoryCalls == IF hasOriginal /\ visible # <<>>
                         THEN << Call("xAxis.setCategories", FALSE) >> ELSE <<>>
  IN  legendCalls \o typeCalls \o metricCalls \o seriesCalls \o categoryCalls
        \o redrawCall

\* the calls one applyAllFilters() pass makes on chart k
chartCalls(k, ch, osd, S, F) ==
  IF Rebuilt(k)
    THEN crossTabCalls(ChartCfg[k].names, dashboardrCrossTab[ChartCfg[k].id], F.filters)
    ELSE filterCalls(k, ch, osd, S, F)

\* the calls a pass from the current state makes on chart k
CallsNow(k) ==
  chartCalls(k, charts[k], originalSeriesData, inputState, collectFilters(inputState))

\* C16: one redraw per chart. A filter application redraws every chart once,
\* as its last call on the chart, on the normal path, on the cross-tab path and
\* for a chart whose cross-tab entry is unusable; every update of categories,
\* data, visibility, legend, title or type before it suppresses the redraw.
C16_OneRedrawPerChart ==
  highcharts = "charts" =>
    \A k \in ChartIds :
      LET log == CallsNow(k) IN
      /\ log # <<>>
      /\ log[Len(log)] = Call("chart.redraw", TRUE)
      /\ \A c \in 1..(Len(log) - 1) : ~log[c].redraw

\* a pass that switches the metric and narrows the categories: on chart 1 it
\* sets data, titles, visibility and categories before its redraw, and it
\* rebuilds chart 4 from the cross-tab
C16_Witness ==
  /\ highcharts = "charts"
  /\ AfterPass = Now
  /\ Len(CallsNow(1)) >= 10
  /\ \E c \in 1..Len(CallsNow(1)) : CallsNow(1)[c].op = "chart.setTitle"
  /\ \E c \in 1..Len(CallsNow(1)) : CallsNow(1)[c].op = "xAxis.setCategories"
  /\ Len(CallsNow(2)) >= 4
  /\ Len(CallsNow(4)) = 4

----------------------------------------------------------------------------
(* Properties of the exposed operations and of the timers *)

\* C17: no operation of the exposed surface throws to its caller: no step of
\* the page ends with an exception that reaches the caller of init,
\* applyFilters, reapply, selectAll, clearAll or resetFilters.
C17_NoThrow == last # "throw"

\* C18: bounded retries. If the charts never appear, the polling of
\* waitForChartsAndApply and the retries of applyAllFilters stop: from some
\* point on no retry timer is pending.
C18_RetriesStop ==
  ([](highcharts # "charts")) => <>[](~waitTimer /\ applyTimers = 0)

----------------------------------------------------------------------------
(* Controls without a filter-variable binding *)

\* the controls of the page that carry no data-filter-var attribute
Unbound == { id \in page : Ctl[id].filterVar = "" }

\* C19: a control without a filter-variable binding is skipped without error.
\* After every step it has no inputState entry, no defaultValues entry, no
\* listener and no marker; a step that changes its DOM value changes no
\* Control State and applies no filter (charts, snapshots and retry timers
\* stay as they were); a reset leaves the element as it was; and a discovery
\* registers every bound control of the page.
C19_UnboundSkipped ==
  [][\A id \in Unbound :
       /\ id \notin DOMAIN inputState'
       /\ id \notin DOMAIN defaultValues'
       /\ dom'[id].listeners = 0
       /\ ~dom'[id].marker
       /\ dom'[id].value # dom[id].value =>
            /\ inputState' = inputState
            /\ charts' = charts
            /\ originalSeriesData' = originalSeriesData
            /\ applyTimers' = applyTimers
       /\ last' = "reset" => dom'[id] = dom[id]
       /\ last' = "init" =>
            \A o \in page \ Unbound :
              /\ o \in DOMAIN inputState'
              /\ o \in DOMAIN defaultValues'
              /\ dom'[o].marker
              /\ dom'[o].listeners > 0
  ]_vars

\* the user ticked the unbound checkbox group on a page whose other control is
\* registered, while no chart exists and no retry timer is pending
C19_Witness ==
  /\ "loose" \in page
  /\ dom["loose"].value = {"A"}
  /\ "since" \in DOMAIN inputState
  /\ dom["since"].listeners > 0
  /\ last = "change"
  /\ highcharts = "nocharts"
  /\ applyTimers = 0

----------------------------------------------------------------------------
(* The debounce of the text inputs *)

\* the registered text inputs of the page
TextControls == { id \in page : Ctl[id].type = "text" /\ dom[id].listeners > 0 }

\* the step is an input event on text input id
InputEvent(id) == dom'[id].value # dom[id].value /\ last' = "other"

\* the step runs a debounce timeout of text input id
TimeoutRuns(id) == textTimer'[id] < textTimer[id]

\* C20: text debounce. An input event on a text control changes no Control
\* State and applies no filter; it cancels the pending timeout and leaves
\* exactly one pending, so a burst ends with one timeout. When that timeout
\* runs it writes the Control State from the DOM value of that moment, makes
\* one filter application and leaves no timeout pending.
C20_TextDebounce ==
  [][\A id \in TextControls :
       /\ InputEvent(id) =>
            /\ inputState' = inputState
            /\ charts' = charts
            /\ originalSeriesData' = originalSeriesData
            /\ applyTimers' = applyTimers
            /\ textTimer'[id] = 1
       /\ TimeoutRuns(id) =>
            /\ textTimer'[id] = 0
            /\ inputState'[id].value = dom[id].value
            /\ inputState'[id].selected = <<dom[id].value>>
            /\ \A o \in DOMAIN inputState \ {id} : inputState'[o] = inputState[o]
            /\ Surface(charts', originalSeriesData', applyTimers')
                 = applyAllFilters(highcharts, Now, inputState')
            /\ NoCharts => applyTimers' = applyTimers + 1
  ]_vars

\* the timeout of the search box has run after the user typed: the Control
\* State holds the typed text, which is not the text captured at registration,
\* and no timeout is pending
C20_Witness ==
  /\ "search" \in page
  /\ "search" \in DOMAIN inputState
  /\ last = "change"
  /\ textTimer["search"] = 0
  /\ inputState["search"].value = dom["search"].value
  /\ inputState["search"].value # atInit["search"].value

----------------------------------------------------------------------------
(* Category narrowing and the data shown on the normal path *)

\* the charts the normal path handles that have original categories
CategoricalCharts ==
  { k \in ChartIds : ~Rebuilt(k) /\ originalCategories(charts[k]).set }

\* the original categories of chart k as a pass from the current state finds them
OriginalCats(k) == originalCategories(charts[k]).cats

\* the surviving category indices of chart k under the current control states
SurvivingNow(k) == visibleCategoryIndices(collectFilters(inputState), OriginalCats(k))

\* the surviving category indices when the discrete filters are left out
SurvivingBeforeDiscrete(k) ==
  visibleCategoryIndices([collectFilters(inputState) EXCEPT !.filters = <<>>],
                         OriginalCats(k))

\* the discrete filter variables that narrow the categories of chart k: the
\* selected set is non-empty and shares a value with the original categories
NarrowingVars(k) ==
  { fv \in DOMAIN filtersOf(inputState) :
      SelectedFor(fv) \cap Range(OriginalCats(k)) # {} }

\* C21: discrete category narrowing. On every categorical chart of the normal
\* path the surviving categories are those left by the other filters whose
\* string is selected in every discrete filter that has a non-empty selection
\* sharing a value with the original categories; a discrete filter with an
\* empty selection or with no value in common removes no category.
C21_DiscreteNarrowing ==
  \A k \in CategoricalCharts :
    LET cats == OriginalCats(k)
        before == SurvivingBeforeDiscrete(k)
        selected == [fv \in NarrowingVars(k) |-> SelectedFor(fv)]
    IN  /\ SurvivingNow(k) =
             SelectSeq(before,
                       LAMBDA idx : \A fv \in DOMAIN selected : cats[idx] \in selected[fv])
        /\ DOMAIN selected = {} => SurvivingNow(k) = before

\* the year select holds 2014 only and a pass has narrowed chart 1 to that
\* category, while chart 2 keeps 2014 and drops 2015 and Total
C21_Witness ==
  /\ highcharts = "charts"
  /\ AfterPass = Now
  /\ "year" \in DOMAIN inputState
  /\ inputState["year"].selected = <<"2014">>
  /\ NarrowingVars(1) = {"year"}
  /\ charts[1].categories.cats = <<"2014">>
  /\ charts[2].categories.cats = <<"2014">>

\* the surviving categories of chart k under the current control states
SurvivingCats(k) ==
  LET cats == OriginalCats(k)
      visible == SurvivingNow(k)
  IN  [j \in 1..Len(visible) |-> cats[visible[j]]]

\* C22: after a filter application on a categorical chart of the normal path
\* the category labels of the x axis are the surviving categories, and every
\* visible series has one data point per surviving category, also when no
\* category survives and when the snapshot of the series is not yet captured.
C22_LabelsMatchData ==
  highcharts = "charts" =>
    \A k \in CategoricalCharts :
      LET surviving == SurvivingCats(k)
          after == Table(AfterPass.charts[k])
      IN  /\ after.categories.cats = surviving
          /\ \A i \in 1..Len(ChartCfg[k].names) :
               after.series[i].visible => Len(after.series[i].data) = Len(surviving)

\* the snapshot points at the given indices, null (<<>>) where the snapshot
\* has no point
SnapshotAt(snapshot, indices) ==
  [j \in 1..Len(indices) |->
     IF indices[j] \in 1..Len(snapshot) THEN snapshot[indices[j]] ELSE <<>>]

\* C23: for every visible series of a categorical chart of the normal path
\* whose snapshot is captured, the data displayed after a filter application
\* is the sequence of the snapshot's points at the surviving category indices,
\* in order, null where the snapshot has no point; and a filter application
\* without a metric selection leaves every captured snapshot as it was.
C23_DataFromSnapshot ==
  highcharts = "charts" =>
    LET after == Table(AfterPass) IN
    /\ \A k \in CategoricalCharts :
         LET surviving == SurvivingNow(k) IN
         \A i \in 1..Len(ChartCfg[k].names) :
           (after.charts[k].series[i].visible /\ after.osd[<<k, i>>].has) =>
             after.charts[k].series[i].data
               = SnapshotAt(after.osd[<<k, i>>].data, surviving)
    /\ selectedMetric(filtersOf(inputState)) = "" =>
         \A key \in SeriesKeys :
           originalSeriesData[key].has => after.osd[key] = originalSeriesData[key]

\* the period preset 2015-2019 has left chart 2 with the categories 2015 and
\* Total: its series shows the snapshot's point for 2015 and null for Total,
\* where the snapshot has no point, and the snapshot is as captured
C23_Witness ==
  /\ highcharts = "charts"
  /\ AfterPass = Now
  /\ charts[2].categories.cats = <<"2015", "Total">>
  /\ charts[2].series[1].visible
  /\ charts[2].series[1].data = << <<31>>, <<>> >>
  /\ originalSeriesData[<<2, 1>>] = [has |-> TRUE, data |-> << <<30>>, <<31>> >>]

----------------------------------------------------------------------------
(* Charts with a numeric x axis *)

\* the charts of the normal path without categories whose snapshot points
\* carry a numeric x
NumericCharts ==
  { k \in ChartIds :
      /\ ~Rebuilt(k)
      /\ ~ChartCfg[k].hasCategories
      /\ \A i \in 1..Len(ChartCfg[k].names) :
           \A p \in 1..Len(ChartCfg[k].data[i]) : Len(ChartCfg[k].data[i][p]) = 2 }

\* the current values of the registered sliders
SliderValues ==
  { sliderFiltersOf(inputState)[fv].value : fv \in DOMAIN sliderFiltersOf(inputState) }

\* the snapshot points whose x is at least every given threshold
AtLeast(snapshot, thresholds) ==
  SelectSeq(snapshot, LAMBDA point :
    \A t \in thresholds : Len(point) = 2 /\ Ge(JsNum(point[1]), t))

\* C24: numeric-x-axis slider filtering. After a filter application, whatever
\* slider changes came before, every visible series of a chart without
\* categories whose snapshot is captured displays exactly the snapshot points
\* whose x is at least the current value of every slider; this includes the
\* application that follows lowering a slider that had hidden every point.
C24_NumericSlider ==
  highcharts = "charts" =>
    \A k \in NumericCharts : \A i \in 1..Len(ChartCfg[k].names) :
      LET after == Table(AfterPass) IN
      (after.charts[k].series[i].visible /\ after.osd[<<k, i>>].has) =>
        after.charts[k].series[i].data = AtLeast(after.osd[<<k, i>>].data, SliderValues)

\* the current values of the registered number controls
NumberValues ==
  { numberFiltersOf(inputState)[fv] : fv \in DOMAIN numberFiltersOf(inputState) }

\* C25: a number control is a lower bound on numeric x axes. After a filter
\* application no visible series of a chart with a numeric x axis displays a
\* point whose x is below the value of a number control, and no categorical
\* chart of the normal path shows a numeric category below it.
C25_NumberThreshold ==
  highcharts = "charts" =>
    LET after == Table(AfterPass) IN
    \A n \in NumberValues :
      /\ \A k \in NumericCharts : \A i \in 1..Len(ChartCfg[k].names) :
           after.charts[k].series[i].visible =>
             \A p \in 1..Len(after.charts[k].series[i].data) :
               LET point == after.charts[k].series[i].data[p] IN
               Len(point) = 2 => ~Lt(JsNum(point[1]), n)
      /\ \A k \in CategoricalCharts :
           \A c \in Range(after.charts[k].categories.cats) : ~Lt(parseFloat(c), n)

----------------------------------------------------------------------------
(* Series visibility on the normal path *)

\* C26: series visibility without a switch binding. After a filter
\* application a series of a chart of the normal path that no switch forces
\* hidden or shown is visible, and in the legend, exactly when no active text
\* filter and no discrete filter that matches a series name of the chart
\* excludes it; a filter that matches no series name of the chart hides none.
C26_SeriesVisibility ==
  highcharts = "charts" =>
    LET after == Table(AfterPass) IN
    \A k \in ChartIds : \A i \in 1..Len(ChartCfg[k].names) :
      LET name == ChartCfg[k].names[i] IN
      (~Rebuilt(k) /\ name \notin SwitchedOff /\ name \notin SwitchedOnOverride) =>
        /\ after.charts[k].series[i].visible <=> ~Excluded(k, name)
        /\ after.charts[k].series[i].showInLegend <=> ~Excluded(k, name)

\* the search box holds " A " on a page without a switch: a pass has left
\* series A of chart 1 visible and series B hidden, and series C of chart 2,
\* whose chart has no series name containing "a", visible
C26_Witness ==
  /\ highcharts = "charts"
  /\ AfterPass = Now
  /\ page = {"search", "atleast"}
  /\ "search" \in DOMAIN inputState
  /\ inputState["search"].value = " A "
  /\ charts[1].series[1].visible
  /\ ~charts[1].series[2].visible
  /\ charts[2].series[1].visible

----------------------------------------------------------------------------
(* The cross-tab path *)

\* the cross-tab entry of chart k
CrossTabOf(k) == dashboardrCrossTab[ChartCfg[k].id]

\* the rows of the cross-tab of chart k the current selections keep
RowsNow(k) ==
  crossTabFilter(CrossTabOf(k).data, CrossTabOf(k).config.filterVars, filtersOf(inputState))

\* no filter variable of the cross-tab of chart k has a selection
NoActiveFilter(k) ==
  \A fv \in Range(CrossTabOf(k).config.filterVars) : SelectedFor(fv) = {}

\* C27: cross-tab delegation. A filter application rebuilds a chart with a
\* usable cross-tab entry from the raw rows and redraws it, also when no
\* filter variable has a selection, and does nothing of the normal path to it:
\* the original categories are not captured, no snapshot changes, and the
\* visibility, legend membership, type and titles stay as they were. A chart
\* whose entry lacks data or config takes the normal path.
C27_CrossTabDelegation ==
  highcharts = "charts" =>
    LET after == Table(AfterPass) IN
    \A k \in ChartIds :
      /\ Rebuilt(k) =>
           LET config == CrossTabOf(k).config
               rows == RowsNow(k)
               xs == orderedX(rows, config)
               log == CallsNow(k)
           IN  /\ NoActiveFilter(k) => rows = CrossTabOf(k).data
               /\ after.charts[k].categories = [has |-> TRUE, cats |-> xs]
               /\ after.charts[k] =
                    rebuildFromCrossTab(charts[k], ChartCfg[k].names, CrossTabOf(k),
                                        filtersOf(inputState)).chart
               /\ \A i \in 1..Len(ChartCfg[k].names) :
                    /\ after.charts[k].series[i].visible = charts[k].series[i].visible
                    /\ after.charts[k].series[i].showInLegend
                         = charts[k].series[i].showInLegend
                    /\ after.charts[k].series[i].type = charts[k].series[i].type
                    /\ after.osd[<<k, i>>] = originalSeriesData[<<k, i>>]
               /\ after.charts[k].origCats = charts[k].origCats
               /\ after.charts[k].title = charts[k].title
               /\ after.charts[k].yTitle = charts[k].yTitle
               /\ after.charts[k].legend = charts[k].legend
               /\ log[Len(log)] = Call("chart.redraw", TRUE)
      /\ (hasCrossTab(k) /\ ~Rebuilt(k)) =>
           after.charts[k] =
             filterChart(k, charts[k], originalSeriesData, inputState,
                         collectFilters(inputState)).chart

\* the switch for B is off and no country is selected: a pass has rebuilt the
\* cross-tab chart with both buckets, left its series B visible and captured
\* no original categories for it, while chart 2, whose entry has no data, took
\* the normal path
C27_Witness ==
  /\ highcharts = "charts"
  /\ AfterPass = Now
  /\ "B" \in SwitchedOff
  /\ NoActiveFilter(4)
  /\ charts[4].categories.cats = <<"2014", "2015">>
  /\ charts[4].series[2].visible
  /\ ~charts[4].origCats.set
  /\ charts[2].origCats.set

\* the sum of the count field n over the rows with x value x and, when
\* anyStack is false, stack value s
RECURSIVE CellSum(_, _, _, _, _)
CellSum(rows, config, x, s, anyStack) ==
  IF rows = <<>> THEN 0
  ELSE (IF Head(rows)[config.xVar] = x /\ (anyStack \/ Head(rows)[config.stackVar] = s)
          THEN Head(rows).n ELSE 0)
       + CellSum(Tail(rows), config, x, s, anyStack)

\* cross-tab configs in either mode: the configs of the percent mode above and
\* the same with raw counts
AnyModeConfigs ==
  PercentConfigs \cup { [config EXCEPT !.stackedType = "normal"] : config \in PercentConfigs }

\* C28: cross-tab aggregation. In normal mode the value written for category
\* x and stack value s is the sum of n over the kept rows with that x and s,
\* 0 when there is none; in percent mode the value for a bucket whose total is
\* 0 is 0. This holds for the chart the page shows and for every config of
\* either mode applied to the rows the current selections keep.
C28_Aggregation ==
  /\ \A config \in AnyModeConfigs :
       LET rows == crossTabFilter(crossTabRows, config.filterVars, filtersOf(inputState))
           xs == orderedX(rows, config)
           stack == orderedStack(rows, config)
           out == emitted(ChartCfg[4].names, rows, config, xs)
       IN  \A p \in 1..Len(stack) : \A j \in 1..Len(xs) :
             /\ config.stackedType # "percent" =>
                  out[p].data[j] = << CellSum(rows, config, xs[j], stack[p], FALSE) >>
             /\ (config.stackedType = "percent"
                   /\ CellSum(rows, config, xs[j], "", TRUE) = 0) =>
                  out[p].data[j] = <<0>>
  /\ highcharts = "charts" =>
       LET after == Table(AfterPass) IN
       \A k \in ChartIds :
         (Rebuilt(k) /\ CrossTabOf(k).config.stackedType # "percent") =>
           LET config == CrossTabOf(k).config
               rows == RowsNow(k)
               xs == after.charts[k].categories.cats
               names == ChartCfg[k].names
           IN  Range(orderedStack(rows, config)) \subseteq Range(names) =>
                 \A i \in 1..Len(names) :
                   names[i] \in Range(orderedStack(rows, config)) =>
                     after.charts[k].series[i].data =
                       [j \in 1..Len(xs) |->
                          << CellSum(rows, config, xs[j], names[i], FALSE) >>]

\* the page asks for raw counts and nothing is selected: a pass has written
\* to series B the count 0 for 2014, where no row has answer B, and 4 for
\* 2015, the sum of its two rows, and to series A the counts 5 and 1
C28_Witness ==
  /\ highcharts = "charts"
  /\ AfterPass = Now
  /\ CrossTabOf(4).config.stackedType = "normal"
  /\ NoActiveFilter(4)
  /\ charts[4].categories.cats = <<"2014", "2015">>
  /\ charts[4].series[1].data = << <<5>>, <<1>> >>
  /\ charts[4].series[2].data = << <<0>>, <<4>> >>

\* the distinct values of a sequence in the order they are first seen
FirstSeenOrder(s) ==
  LET first == SelectSeq([i \in 1..Len(s) |-> i],
                         LAMBDA i : \A j \in 1..(i - 1) : s[j] # s[i])
  IN  [k \in 1..Len(first) |-> s[first[k]]]

\* the values of field var of the rows, in row order
Column(rows, var) == [i \in 1..Len(rows) |-> rows[i][var]]

\* C29: cross-tab ordering. The categories a rebuild emits are the supplied
\* xOrder when it is non-empty, else the distinct x values of the kept rows in
\* first-seen order, also when they are years; the stack values it emits are
\* the supplied stackOrder when it is non-empty, else the distinct stack values
\* of the kept rows in first-seen order.
C29_Ordering ==
  highcharts = "charts" =>
    /\ \A k \in ChartIds :
         Rebuilt(k) =>
           AfterPass.charts[k].categories.cats =
             IF CrossTabOf(k).config.xOrder # <<>> THEN CrossTabOf(k).config.xOrder
             ELSE FirstSeenOrder(Column(RowsNow(k), CrossTabOf(k).config.xVar))
    /\ \A config \in AnyModeConfigs :
         LET rows == crossTabFilter(crossTabRows, config.filterVars, filtersOf(inputState))
         IN  /\ orderedX(rows, config) =
                  IF config.xOrder # <<>> THEN config.xOrder
                  ELSE FirstSeenOrder(Column(rows, config.xVar))
             /\ orderedStack(rows, config) =
                  IF config.stackOrder # <<>> THEN config.stackOrder
                  ELSE FirstSeenOrder(Column(rows, config.stackVar))

\* what a rebuild of chart k from the current state emits: per stack value,
\* the series written (0 for none) and its data
EmittedNow(k) ==
  LET config == CrossTabOf(k).config
      rows == RowsNow(k)
  IN  emitted(ChartCfg[k].names, rows, config, orderedX(rows, config))

\* C30: cross-tab series matching. In a rebuild each stack value is written
\* to the chart series of that name when there is one, else to the series at
\* the stack value's position in the stack order, and no chart series is
\* written the data of two different stack values.
C30_SeriesMatching ==
  \A k \in ChartIds :
    (highcharts = "charts" /\ Rebuilt(k)) =>
      LET names == ChartCfg[k].names
          stack == orderedStack(RowsNow(k), CrossTabOf(k).config)
          out == EmittedNow(k)
      IN  /\ \A p \in 1..Len(stack) :
               /\ stack[p] \in Range(names) => names[out[p].series] = stack[p]
               /\ (stack[p] \notin Range(names) /\ p <= Len(names)) => out[p].series = p
          /\ \A p, q \in 1..Len(stack) :
               (p # q /\ stack[p] # stack[q] /\ out[p].series # 0) =>
                 out[p].series # out[q].series

\* the series of chart k whose stack value no row kept by the current
\* selections carries
Emptied(k) ==
  { i \in 1..Len(ChartCfg[k].names) :
      \A j \in 1..Len(RowsNow(k)) :
        RowsNow(k)[j][CrossTabOf(k).config.stackVar] # ChartCfg[k].names[i] }

\* C31: after every cross-tab rebuild every series of the chart shows the
\* aggregation of the rows the current selections keep, one value per
\* category shown; a series whose stack value has no surviving row shows 0 for
\* every category, with or without a supplied stack order.
C31_RebuildShowsAggregation ==
  highcharts = "charts" =>
    LET after == Table(AfterPass) IN
    \A k \in ChartIds :
      Rebuilt(k) =>
        LET config == CrossTabOf(k).config
            rows == RowsNow(k)
            xs == after.charts[k].categories.cats
        IN  \A i \in 1..Len(ChartCfg[k].names) :
              /\ after.charts[k].series[i].data
                   = seriesData(rows, config, xs, ChartCfg[k].names[i])
              /\ i \in Emptied(k) =>
                   after.charts[k].series[i].data = [j \in 1..Len(xs) |-> <<0>>]

----------------------------------------------------------------------------
(* Button groups *)

\* the registered button groups
ButtonGroups ==
  { id \in DOMAIN inputState : inputState[id].inputType = "button_group" }

\* C32: button group exclusivity. In every reachable state at most one option
\* of a registered button group is active, the Control State selects at most
\* one value, and that value is the value of the active option; a click makes
\* the clicked option the active and selected one, and a reset of the group
\* makes it the default.
C32_ButtonExclusive ==
  /\ [](\A id \in ButtonGroups :
          /\ Cardinality(dom[id].value) <= 1
          /\ Len(inputState[id].selected) <= 1
          /\ Range(inputState[id].selected) = dom[id].value)
  /\ [][\A id \in ButtonGroups :
          /\ \A b \in Range(Ctl[id].options) :
               ButtonClick(id, b) =>
                 /\ dom'[id].value = {b}
                 /\ inputState'[id].selected = <<b>>
          /\ \A targets \in TargetAttrs(page) :
               (ResetStep(targets)
                  /\ id \in resetTargets(targets, dom, inputState, defaultValues)) =>
                 /\ dom'[id].value = Range(defaultValues[id].selected)
                 /\ inputState'[id].selected = defaultValues[id].selected
                 /\ defaultValues[id].selected = atInit[id].state.selected]_vars

\* a click has moved the active marker of the metric buttons from the default
\* option to the other one
C32_Witness ==
  /\ "metric" \in ButtonGroups
  /\ last = "change"
  /\ defaultValues["metric"].selected = <<"GDP">>
  /\ dom["metric"].value = {"Pop"}
  /\ inputState["metric"].selected = <<"Pop">>

----------------------------------------------------------------------------
(* Snapshots and timers *)

\* the data the series key had when the chart was constructed, before any
\* filter application
AsConstructed(key) == ChartCfg[key[1]].data[key[2]]

\* the step is the startup application of waitForChartsAndApply
StartupApplies == ~filtersApplied /\ filtersApplied'

\* C33: snapshot before modify. Under every interleaving of user changes, the
\* startup poll, retry timers and tab-switch timers, a captured snapshot holds
\* the data its series had before any filter application wrote to the series
\* and is captured once, never replaced; the startup application runs once,
\* only when a chart exists, and captures the snapshots before it applies.
C33_SnapshotBeforeModify ==
  /\ [](\A key \in SeriesKeys :
          originalSeriesData[key].has =>
            originalSeriesData[key].data = AsConstructed(key))
  /\ [](filtersApplied => ~waitTimer)
  /\ [][/\ \A key \in SeriesKeys :
             originalSeriesData[key].has =>
               originalSeriesData'[key].data = originalSeriesData[key].data
        /\ filtersApplied => filtersApplied'
        /\ StartupApplies =>
             /\ highcharts = "charts"
             /\ Surface(charts', originalSeriesData', applyTimers')
                  = applyAllFilters("charts",
                      Surface(charts, storeOriginalData(charts, originalSeriesData),
                              applyTimers),
                      inputState')]_vars

\* the step is a click on a tab element
TabClicked == tabTimers' > tabTimers

\* the step runs the timeout a tab click scheduled
TabTimeoutRuns == tabTimers' < tabTimers

\* what a tab click and its timeout leave alone: no discovery (no marker, no
\* listener, no registration), no Control State and no default changes, and
\* no snapshot of a series that has one changes
TabFrame ==
  /\ dom' = dom
  /\ inputState' = inputState
  /\ defaultValues' = defaultValues
  /\ atInit' = atInit
  /\ initialized' = initialized
  /\ filtersApplied' = filtersApplied
  /\ \A key \in SeriesKeys :
       originalSeriesData[key].has =>
         originalSeriesData'[key] = originalSeriesData[key]

\* the timeout captures the series not yet seen and makes one applyAllFilters() call
TabReapplies ==
  Surface(charts', originalSeriesData', applyTimers')
    = applyAllFilters(highcharts,
        Surface(charts,
                IF highcharts = "charts"
                  THEN storeOriginalData(charts, originalSeriesData)
                  ELSE originalSeriesData,
                applyTimers),
        inputState)

\* C34 as stated: a click on a tab schedules one timeout; the timeout captures
\* the snapshots of the series not yet seen and then makes one filter
\* application, whatever the state of the charting library; neither step runs
\* discovery or changes inputState or defaultValues, and no series that has a
\* snapshot is captured again.
C34_TabAlwaysReapplies ==
  [][/\ TabClicked =>
          /\ tabTimers' = tabTimers + 1
          /\ TabFrame
          /\ Surface(charts', originalSeriesData', applyTimers') = Now
     /\ TabTimeoutRuns =>
          /\ tabTimers' = tabTimers - 1
          /\ TabFrame
          /\ TabReapplies]_vars

\* C34, amended: as stated, but the timeout captures and applies only when
\* Highcharts is defined at the time it runs; otherwise it does nothing.
C34_TabReapplication ==
  [][/\ TabClicked =>
          /\ tabTimers' = tabTimers + 1
          /\ TabFrame
          /\ Surface(charts', originalSeriesData', applyTimers') = Now
     /\ TabTimeoutRuns =>
          /\ tabTimers' = tabTimers - 1
          /\ TabFrame
          /\ highcharts # "undefined" => TabReapplies
          /\ highcharts = "undefined" =>
               Surface(charts', originalSeriesData', applyTimers') = Now]_vars

\* the charts exist, the startup application has not run yet, and every
\* series has its snapshot: the timeout of a tab click captured them
C34_Witness ==
  /\ highcharts = "charts"
  /\ readyState = "complete"
  /\ ~filtersApplied
  /\ waitTimer
  /\ tabTimers = 0
  /\ \A k \in ChartIds : Captured(k)
  /\ AfterPass = Now

\* the step runs a retry timer that finds the charts: the timer is used up
RetryApplies == applyTimers' < applyTimers

----------------------------------------------------------------------------
(* Registry and DOM *)

\* the text inputs whose debounce timeout is pending
Debouncing == { id \in page : Ctl[id].type = "text" /\ textTimer[id] > 0 }

\* C36: registry/DOM consistency. Between handlers, the Control State of
\* every registered control other than a text input with a pending debounce
\* timeout holds the control's live DOM value: its selected values and its
\* value are those of the element, after any sequence of user changes,
\* selectAll, clearAll and resetFilters calls.
C36_StateMatchesDom ==
  \A id \in DOMAIN inputState :
    id \notin Debouncing => MatchesDom(id, inputState[id], dom[id].value)

----------------------------------------------------------------------------
(* Properties of the tab scroll fix *)

\* C37: tab scroll fix. After a handled click on a tab of a panel tabset, and
\* after each deferred restore, the window is at the scroll position it had
\* before the interaction: before the mousedown when the click ended a mouse
\* press, before the click when it was produced without one.
C37_ScrollKept ==
  phase \in {"clicked", "keyed"} => scroll = scrollBefore

\* C38: tab activation. Once a tab of a tabset has been clicked (target
\* starting with '#'), exactly one nav-link of the tabset is active and has
\* aria-selected true, the last clicked one, and at most one direct pane of
\* the tabset is active: the target pane of that tab when it exists, none
\* otherwise.
C38_TabExclusive ==
  \A t \in Tabs :
    clicked[TabCfg[t].tabset] = t =>
      /\ navActive \cap navLinks(t) = {t}
      /\ ariaSelected \cap navLinks(t) = {t}
      /\ Cardinality(paneActive \cap directPanes(t)) <= 1
      /\ paneActive \cap directPanes(t)
           = { p \in Panes : PaneCfg[p].selector = TabCfg[t].target }

\* in the first tabset the tab whose pane is missing was clicked last and no
\* pane is active there; in the second the second tab was clicked and its
\* pane is the active one
C38_Witness ==
  /\ clicked["ts1"] = "t3"
  /\ clicked["ts2"] = "u2"
  /\ navActive = {"t3", "u2"}
  /\ paneActive = {"q2"}

----------------------------------------------------------------------------
(* Properties of the modal system *)

\* C39: modal state machine. However many times initializeModals has run, at
\* most one overlay and one set of handlers exist, and exactly one of each
\* once it has run; the overlay is shown iff the last effective operation was
\* an open whose content element exists; body scrolling is locked iff the
\* overlay is shown; after a close the modal body is empty; and the last
\* click on a modal-link whose fragment does not resolve to an element with
\* class modal-content neither opened the modal nor had its default
\* navigation prevented.
C39_ModalStateMachine ==
  /\ overlays <= 1 /\ modalHandlers <= 1
  /\ modalPhase # "loading" => overlays = 1 /\ modalHandlers = 1
  /\ display = "flex" <=> lastOp = "open"
  /\ overflow = "hidden" <=> display = "flex"
  /\ lastOp = "close" => modalBody = ""
  /\ \A l \in Links :
       (lastClick.link = l /\ LinkCfg[l].modalLink /\ ~Resolves(l)) =>
         ~lastClick.prevented /\ ~lastClick.opened

====
